---- MODULE Spec2Model ----
(***************************************************************************)
(* Verification model of review-synthesis-app: the three form handlers of  *)
(* POST /api/synthesize (src/app/api/synthesize/route.ts, and the two      *)
(* later revisions src/unnamed/part_002 and src/unnamed/part_004), their   *)
(* helpers (score gap analysis, section splitter, fallback generators),    *)
(* the external completion service they call, the handler of a JSON body   *)
(* that route.ts keeps after them (lines 414-609), two invocations of a    *)
(* handler in one process, the reviews table of the database schema        *)
(* (src/unnamed/part_000), the page that posts the form (src/app/page.tsx  *)
(* and its variants src/unnamed/part_007 and src/unnamed/part_006), and    *)
(* validatePDFFile (src/unnamed/part_001).                                 *)
(*                                                                         *)
(* JavaScript strings are TLA+ strings; the non-ASCII marks of the source  *)
(* literals are written in ASCII: check mark "[x]", cross "[ ]", bullet    *)
(* "*", em dash "-"; the backquote of a markdown code fence is "'".        *)
(***************************************************************************)
EXTENDS Integers, Sequences, FiniteSets, TLC

VARIABLES apiKey, handler, req, pc, data, calls, lastReply, failed, resp, fn, ret,
          own, parked, reviews, sql,
          component, inputs, extractedData, output, isGenerating, error,
          currentStep, timers, generating, tests, clicks, events

vars ==
  <<apiKey, handler, req, pc, data, calls, lastReply, failed, resp, fn, ret,
    own, parked, reviews, sql,
    component, inputs, extractedData, output, isGenerating, error,
    currentStep, timers, generating, tests, clicks, events>>

handlerVars == <<apiKey, handler, req, pc, data, calls, lastReply, failed, resp>>

pureVars == <<fn, ret>>

concurrencyVars == <<own, parked>>

storageVars == <<reviews, sql>>

pageVars ==
  <<component, inputs, extractedData, output, isGenerating, error,
    currentStep, timers, generating, tests, clicks, events>>

(***************************************************************************)
(* Bounds of the model.                                                    *)
(***************************************************************************)
\* the number of files of a category that is not left empty
MaxFiles == 1

\* scores 1..MaxSampleScore are enumerated for the gap analysis
MaxSampleScore == 3

\* the values of reviews.id that the statements on the table name
MaxReviewIds == 2

\* the longest reply text that is cut into quarters
MaxTextLen == 9

\* the largest number of user events (uploads, removals, comment edits and
\* clicks) in the life of a page
MaxEvents == 3

(***************************************************************************)
(* JavaScript values: a tagged record per type.                            *)
(***************************************************************************)
Undefined == [t |-> "undefined"]

Null == [t |-> "null"]

NaN == [t |-> "NaN"]

Str(s) == [t |-> "string", s |-> s]

Num(n) == [t |-> "number", n |-> n]

Obj(o) == [t |-> "object", o |-> o]

Arr(a) == [t |-> "array", a |-> a]

\* ToBoolean: what `x || y`, `!!x`, `x ? a : b` and `if (x)` test
Truthy(v) ==
  CASE v.t = "string" -> v.s # ""
    [] v.t = "number" -> v.n # 0
    [] v.t \in {"object", "array"} -> TRUE
    [] OTHER -> FALSE

\* x || y
OrElse(x, y) == IF Truthy(x) THEN x ELSE y

\* reading a property of null or undefined throws a TypeError
Nullish(v) == v.t \in {"undefined", "null"}

\* v[key] of a non-nullish value: undefined when the key is absent
Get(v, key) ==
  IF v.t = "object" /\ key \in DOMAIN v.o THEN v.o[key] ELSE Undefined

\* v[0] of a non-nullish value
First(v) ==
  IF v.t = "array" /\ Len(v.a) > 0 THEN v.a[1] ELSE Undefined

(***************************************************************************)
(* String methods.                                                         *)
(***************************************************************************)
Min(a, b) == IF a < b THEN a ELSE b

Max(a, b) == IF a > b THEN a ELSE b

\* s.charAt(i), i counted from 0; "" outside the string
charAt(s, i) == IF i >= 0 /\ i < Len(s) THEN SubSeq(s, i + 1, i + 1) ELSE ""

\* s.substring(a, b), a <= b, both counted from 0 and clamped to the string
substring(s, a, b) == SubSeq(s, Min(a, Len(s)) + 1, Min(b, Len(s)))

\* s.substring(a)
substringFrom(s, a) == SubSeq(s, Min(a, Len(s)) + 1, Len(s))

\* what \s matches among the characters of the model's texts
IsSpace(c) == c \in {" ", "\n", "\t"}

\* the least member of a non-empty set of integers
SetMin(S) == CHOOSE x \in S : \A y \in S : x <= y

\* the offset where a greedy \s* that starts at offset i stops
RECURSIVE skipSpaces(_, _)
skipSpaces(s, i) ==
  IF i < Len(s) /\ IsSpace(charAt(s, i)) THEN skipSpaces(s, i + 1) ELSE i

\* the offset where the white space that ends before offset i starts
RECURSIVE skipSpacesBack(_, _)
skipSpacesBack(s, i) ==
  IF i > 0 /\ IsSpace(charAt(s, i - 1)) THEN skipSpacesBack(s, i - 1) ELSE i

\* s.trim()
trim(s) ==
  LET from == skipSpaces(s, 0)
      to == skipSpacesBack(s, Len(s))
  IN IF from >= to THEN "" ELSE SubSeq(s, from + 1, to)

\* s.startsWith(p, i): p occurs in s at offset i (from 0)
startsWithAt(s, p, i) ==
  i + Len(p) <= Len(s) /\ SubSeq(s, i + 1, i + Len(p)) = p

\* s.includes(p)
includes(s, p) == \E i \in 0..(Len(s) - Len(p)) : startsWithAt(s, p, i)

(***************************************************************************)
(* The requests a client can send.  A file is modelled by its presence:    *)
(* the handlers read only the number of files of a category, and the name  *)
(* of the feedback document.                                               *)
(***************************************************************************)
Handlers == {"route", "transparent", "mock", "json"}

\* manager comment texts: field absent, empty, blank, and a real comment
Comments == {Null, Str(""), Str("  "), Str("Reliable and kind.")}

\* formData.getAll(category).length: the handlers test it against 0 only
FileCounts == {0, MaxFiles}

FormRequests ==
  [contentType : {Str("multipart/form-data; boundary=x")},
   formOk : {TRUE},
   itpEmployeeScreenshots : FileCounts,
   itpManagerScreenshots : FileCounts,
   feedback360 : BOOLEAN,
   selfReviewScreenshots : FileCounts,
   managerComments : Comments]

\* requests whose body request.formData() cannot read: a JSON body, a body
\* without content type, and a multipart body that is cut short
OtherRequests ==
  [contentType : {Str("application/json"), Null,
                  Str("multipart/form-data; boundary=x")},
   formOk : {FALSE},
   itpEmployeeScreenshots : {0},
   itpManagerScreenshots : {0},
   feedback360 : {FALSE},
   selfReviewScreenshots : {0},
   managerComments : {Null}]

Requests == FormRequests \cup OtherRequests

NoRequest ==
  [contentType |-> Null, formOk |-> FALSE, itpEmployeeScreenshots |-> 0,
   itpManagerScreenshots |-> 0, feedback360 |-> FALSE,
   selfReviewScreenshots |-> 0, managerComments |-> Null]

\* formData.get('managerComments') as string || ''
managerCommentsOf(r) == OrElse(r.managerComments, Str("")).s

(***************************************************************************)
(* The external completion service: what one fetch can come back with.     *)
(***************************************************************************)
\* the fetch promise rejects (transport error)
Rejected == [outcome |-> "rejected"]

\* a response with a non-success status
HttpError(st) == [outcome |-> "response", ok |-> FALSE, status |-> st]

\* a success response; body is the value response.json() resolves to, or
\* Unparsable when response.json() rejects
HttpOk(body) == [outcome |-> "response", ok |-> TRUE, status |-> 200, body |-> body]

Unparsable == [t |-> "unparsable"]

\* the reply a handler has received last, and the call it answers
NoReply == [call |-> "none"]

Received(call, reply) == [call |-> call, reply |-> reply]

\* the service's message object with one text block
Message(text) ==
  Obj([content |-> Arr(<<Obj([type |-> Str("text"), text |-> text])>>)])

\* a message without any content block, and an error-shaped body
EmptyMessage == Obj([content |-> Arr(<<>>)])

NoContentBody == Obj([type |-> Str("error")])

(***************************************************************************)
(* JSON.parse, on the texts the model's service can reply with.            *)
(***************************************************************************)
ReviewJson ==
  "{\"strengths\":\"Kind.\",\"developmentFeedback\":\"Slow.\",\"goalsNextYear\":\"Grow.\",\"overallAssessment\":\"Fine.\"}"

ReviewJsonFenced == "'''json\n" \o ReviewJson \o "\n'''"

ReviewJsonOddShape == "{\"strengths\":5,\"developmentFeedback\":null}"

ScoresJson555 == "{\"humble\": 5, \"hungry\": 5, \"smart\": 5}"

ScoresJson853 == "{\"humble\": 8, \"hungry\": 5, \"smart\": 3}"

ScoresJsonFenced == "'''json\n" \o ScoresJson853 \o "\n'''"

ScoresJsonNulls == "{\"humble\": null, \"hungry\": null, \"smart\": null}"

ScoresJsonPartial == "{\"humble\": 11}"

JsonThrows == [throws |-> TRUE]

JsonValue(v) == [throws |-> FALSE, v |-> v]

JSONParse(s) ==
  CASE s = ReviewJson ->
         JsonValue(Obj([strengths |-> Str("Kind."),
                        developmentFeedback |-> Str("Slow."),
                        goalsNextYear |-> Str("Grow."),
                        overallAssessment |-> Str("Fine.")]))
    [] s = ReviewJsonOddShape ->
         JsonValue(Obj([strengths |-> Num(5), developmentFeedback |-> Null]))
    [] s = ScoresJson555 ->
         JsonValue(Obj([humble |-> Num(5), hungry |-> Num(5), smart |-> Num(5)]))
    [] s = ScoresJson853 ->
         JsonValue(Obj([humble |-> Num(8), hungry |-> Num(5), smart |-> Num(3)]))
    [] s = ScoresJsonNulls ->
         JsonValue(Obj([humble |-> Null, hungry |-> Null, smart |-> Null]))
    [] s = ScoresJsonPartial -> JsonValue(Obj([humble |-> Num(11)]))
    [] s = "{}" -> JsonValue(Obj(<<>>))
    [] s = "null" -> JsonValue(Null)
    [] OTHER -> JsonThrows

\* s.replace(/'''json|'''/g, ''): one pass, the longer alternative first
RECURSIVE removeFences(_)
removeFences(s) ==
  LET found == {i \in 0..(Len(s) - 3) : startsWithAt(s, "'''", i)} IN
  IF found = {} THEN s
  ELSE LET i == SetMin(found)
           n == IF startsWithAt(s, "'''json", i) THEN 7 ELSE 3
       IN substring(s, 0, i) \o removeFences(substringFrom(s, i + n))

\* result.content[0]?.text of a response body: throws when the body is
\* null or has no content
messageText(result) ==
  IF Nullish(result) \/ Nullish(Get(result, "content")) THEN JsonThrows
  ELSE LET block == First(Get(result, "content")) IN
       JsonValue(IF Nullish(block) THEN Undefined ELSE Get(block, "text"))

\* the reply is a failure of the call: the fetch rejects, the status is no
\* success, the body is no JSON or no message, or the text of a score call
\* is no JSON with or without its fence
replyFails(call, reply) ==
  \/ reply.outcome = "rejected"
  \/ ~reply.ok
  \/ reply.body = Unparsable
  \/ messageText(reply.body).throws
  \/ /\ call \in {"itpEmployee", "itpManager"}
     /\ LET text == messageText(reply.body).v IN
        /\ text.t = "string"
        /\ JSONParse(text.s).throws
        /\ JSONParse(trim(removeFences(text.s))).throws

(***************************************************************************)
(* Responses.  The body of a response is a record whose DOMAIN is the set  *)
(* of keys of the JSON object.                                             *)
(***************************************************************************)
NoResponse == [status |-> 0, body |-> <<>>]

\* NextResponse.json(body, { status })
Respond(status, body) == [status |-> status, body |-> body]
\* the body of the catch of POST without its status
ErrorResponseWithoutStatus(message) ==
  Respond(200, [error |-> Str("Failed to synthesize review"),
                details |-> Str(message)])

\* the catch of POST: { error, details: error.message }, status 500
ErrorResponse(message) ==
  Respond(500, [error |-> Str("Failed to synthesize review"),
                details |-> Str(message)])

ITPScores(h, u, s) == Obj([humble |-> h, hungry |-> u, smart |-> s])

\* Object.values(dataUsed).filter(Boolean).length
countUsed(dataUsed) == Cardinality({k \in DOMAIN dataUsed : dataUsed[k]})

\* s.replace(/p(opt)?/g, ''): every occurrence of p, with the opt that may
\* follow it, is removed in one pass from the left
RECURSIVE removeAll(_, _, _)
removeAll(s, p, opt) ==
  LET found == {i \in 0..(Len(s) - Len(p)) : startsWithAt(s, p, i)} IN
  IF found = {} THEN s
  ELSE LET i == SetMin(found)
           rest == substringFrom(s, i + Len(p))
       IN substring(s, 0, i)
          \o removeAll(IF opt # "" /\ startsWithAt(rest, opt, 0)
                       THEN substringFrom(rest, Len(opt))
                       ELSE rest, p, opt)

(***************************************************************************)
(* Handler "mock" (src/unnamed/part_004): canned extraction data, one      *)
(* synthesis call that is asked for a JSON object.                         *)
(***************************************************************************)
dataUsedMock(r) ==
  [itpScores |-> r.itpEmployeeScreenshots > 0 \/ r.itpManagerScreenshots > 0,
   feedback360 |-> r.feedback360,
   selfReview |-> r.selfReviewScreenshots > 0,
   managerComments |-> Len(trim(managerCommentsOf(r))) > 0]

mockExtractedData(r) ==
  [itpEmployeeScores |->
     IF r.itpEmployeeScreenshots > 0 THEN ITPScores(Num(8), Num(7), Num(9)) ELSE Null,
   itpManagerScores |->
     IF r.itpManagerScreenshots > 0 THEN ITPScores(Num(7), Num(8), Num(8)) ELSE Null,
   feedback360Summary |->
     IF r.feedback360
     THEN Str("Strategic thinking, cross-functional collaboration, technical expertise...")
     ELSE Null,
   selfReviewSummary |->
     IF r.selfReviewScreenshots > 0
     THEN Str("Focused on continuous learning, project leadership, team development...")
     ELSE Null]
\* the fallback of part_004 with strengths that quote the comments alone
generateFallbackQuoting(dataUsed, extraction, managerComments) ==
  LET count == countUsed(dataUsed) IN
  [strengths |-> Str(substring(managerComments, 0, 200)),
   developmentFeedback |->
     Str("Development areas will be identified with more comprehensive data input."),
   goalsNextYear |->
     Str("1. Continue professional development\n2. Strengthen collaboration skills\n3. Expand technical expertise"),
   overallAssessment |->
     Str("Assessment based on " \o ToString(count)
         \o " of 4 possible data sources. Provide additional inputs for a more comprehensive review.")]

generateFallback(dataUsed, extraction, managerComments) ==
  LET count == countUsed(dataUsed) IN
  [strengths |->
     Str("Based on " \o ToString(count) \o " data source(s): "
         \o (IF managerComments # ""
             THEN substring(managerComments, 0, 200)
             ELSE "No specific data provided.")),
   developmentFeedback |->
     Str("Development areas will be identified with more comprehensive data input."),
   goalsNextYear |->
     Str("1. Continue professional development\n2. Strengthen collaboration skills\n3. Expand technical expertise"),
   overallAssessment |->
     Str("Assessment based on " \o ToString(count)
         \o " of 4 possible data sources. Provide additional inputs for a more comprehensive review.")]

\* { ...generateFallback(...), dataUsed, extractedData, error }
mockFallbackResponse(r, message) ==
  Respond(200,
    [dataUsed |-> dataUsedMock(r),
     extractedData |-> mockExtractedData(r),
     error |-> Str(message)]
    @@ generateFallback(dataUsedMock(r), mockExtractedData(r), managerCommentsOf(r)))

\* text.replace(/'''json\n?/g, '').replace(/'''\n?/g, '').trim()
cleanedMock(text) == trim(removeAll(removeAll(text, "'''json", "\n"), "'''", "\n"))

\* the quarters with the third cut at three times the first one
quartersOfFloor(text) ==
  LET n == Len(text) IN
  Obj([strengths |-> Str(substring(text, 0, n \div 4)),
       developmentFeedback |-> Str(substring(text, n \div 4, n \div 2)),
       goalsNextYear |-> Str(substring(text, n \div 2, (n \div 4) * 3)),
       overallAssessment |-> Str(substringFrom(text, (n \div 4) * 3))])

\* the quarters of the raw text, used when JSON.parse throws
quarters(text) ==
  LET n == Len(text) IN
  Obj([strengths |-> Str(substring(text, 0, n \div 4)),
       developmentFeedback |-> Str(substring(text, n \div 4, n \div 2)),
       goalsNextYear |-> Str(substring(text, n \div 2, (n * 3) \div 4)),
       overallAssessment |-> Str(substringFrom(text, (n * 3) \div 4))])

\* the try/catch around JSON.parse; text is result.content?.[0]?.text || ''.
\* A text that is no string has no replace method, and no substring method
\* in the catch either: the TypeError leaves the block.
reviewContentMock(text) ==
  IF text.t # "string" THEN JsonThrows
  ELSE LET parsed == JSONParse(cleanedMock(text.s)) IN
       IF parsed.throws THEN JsonValue(quarters(text.s)) ELSE parsed

mockReviewResponse(r, reviewContent) ==
  Respond(200,
    [strengths |->
       OrElse(Get(reviewContent, "strengths"), Str("No strengths data generated.")),
     developmentFeedback |->
       OrElse(Get(reviewContent, "developmentFeedback"),
              Str("No development feedback generated.")),
     goalsNextYear |->
       OrElse(Get(reviewContent, "goalsNextYear"), Str("No goals generated.")),
     overallAssessment |->
       OrElse(Get(reviewContent, "overallAssessment"),
              Str("No overall assessment generated.")),
     dataUsed |-> dataUsedMock(r),
     extractedData |-> mockExtractedData(r)])

\* result.content?.[0]?.text || '' of a result that is not null
messageTextOpt(result) ==
  LET content == Get(result, "content")
      block == IF Nullish(content) THEN Undefined ELSE First(content)
      text == IF Nullish(block) THEN Undefined ELSE Get(block, "text")
  IN OrElse(text, Str(""))
\* POST of part_004 without its check of response.ok: the body of an error
\* response is read as if it were a message
mockAfterFetchUnchecked(r, reply) ==
  IF reply.outcome = "rejected"
  THEN ErrorResponse("fetch failed")
  ELSE LET body == IF reply.ok THEN reply.body ELSE NoContentBody IN
       IF body = Unparsable
       THEN ErrorResponse("Unexpected token < in JSON at position 0")
       ELSE IF Nullish(body)
       THEN ErrorResponse("Cannot read properties of null (reading 'content')")
       ELSE LET rc == reviewContentMock(messageTextOpt(body)) IN
            IF rc.throws
            THEN ErrorResponse("text.substring is not a function")
            ELSE IF Nullish(rc.v)
            THEN ErrorResponse("Cannot read properties of null (reading 'strengths')")
            ELSE mockReviewResponse(r, rc.v)

\* POST of part_004 from the return of fetch to its response
mockAfterFetch(r, reply) ==
  IF reply.outcome = "rejected"
  THEN ErrorResponse("fetch failed")
  ELSE IF ~reply.ok
  THEN mockFallbackResponse(r, "Claude API error: " \o ToString(reply.status))
  ELSE IF reply.body = Unparsable
  THEN ErrorResponse("Unexpected token < in JSON at position 0")
  ELSE IF Nullish(reply.body)
  THEN ErrorResponse("Cannot read properties of null (reading 'content')")
  ELSE LET rc == reviewContentMock(messageTextOpt(reply.body)) IN
       IF rc.throws
       THEN ErrorResponse("text.substring is not a function")
       ELSE IF Nullish(rc.v)
       THEN ErrorResponse("Cannot read properties of null (reading 'strengths')")
       ELSE mockReviewResponse(r, rc.v)

\* the replies of the service to the synthesis call of part_004
MockSynthesisReplies ==
  {Rejected, HttpError(500), HttpOk(Unparsable), HttpOk(Null),
   HttpOk(EmptyMessage), HttpOk(NoContentBody), HttpOk(Message(Num(5)))}
  \cup {HttpOk(Message(Str(t))) :
          t \in {ReviewJson, ReviewJsonFenced, ReviewJsonOddShape, "null",
                 "Kind. Slow. Grow. Fine.", "abc"}}

NoData ==
  [itpEmployeeScores |-> Null, itpManagerScores |-> Null,
   feedback360Text |-> Null, selfReviewText |-> Str(""),
   managerComments |-> Str("")]

\* new Date().toISOString()
Timestamps == {"2026-01-01T00:00:00.000Z", "2026-01-02T00:00:00.000Z"}
\* POST of part_004 without its check of the API key: the fetch is issued
\* with whatever key there is
POSTMockWithoutKeyCheck(r) ==
  /\ handler = "mock"
  /\ pc = "idle"
  /\ req' = r
  /\ data' = NoData
  /\ IF ~Nullish(r.contentType) /\ includes(r.contentType.s, "application/json")
     THEN /\ \E ts \in Timestamps :
               resp' = Respond(200, [status |-> Str("API is working"),
                                     timestamp |-> Str(ts),
                                     apiKey |-> Str(IF apiKey THEN "present" ELSE "missing")])
          /\ pc' = "done"
          /\ calls' = <<>>
     ELSE IF ~r.formOk
     THEN /\ resp' = ErrorResponse("Failed to parse body as FormData.")
          /\ pc' = "done"
          /\ calls' = <<>>
     ELSE /\ resp' = NoResponse
          /\ pc' = "synthesis"
          /\ calls' = <<"synthesis">>
  /\ lastReply' = NoReply
  /\ failed' = {}
  /\ UNCHANGED <<apiKey, handler, fn, ret>>

\* a request reaches POST of part_004, which runs to its response or to the
\* await of the synthesis fetch
POSTMock(r) ==
  /\ handler = "mock"
  /\ pc = "idle"
  /\ req' = r
  /\ data' = NoData
  /\ IF ~Nullish(r.contentType) /\ includes(r.contentType.s, "application/json")
     THEN /\ \E ts \in Timestamps :
               resp' = Respond(200, [status |-> Str("API is working"),
                                     timestamp |-> Str(ts),
                                     apiKey |-> Str(IF apiKey THEN "present" ELSE "missing")])
          /\ pc' = "done"
          /\ calls' = <<>>
     ELSE IF ~r.formOk
     THEN /\ resp' = ErrorResponse("Failed to parse body as FormData.")
          /\ pc' = "done"
          /\ calls' = <<>>
     ELSE IF ~apiKey
     THEN /\ resp' = mockFallbackResponse(r, "API key not configured")
          /\ pc' = "done"
          /\ calls' = <<>>
     ELSE /\ resp' = NoResponse
          /\ pc' = "synthesis"
          /\ calls' = <<"synthesis">>
  /\ lastReply' = NoReply
  /\ failed' = {}
  /\ UNCHANGED <<apiKey, handler, fn, ret>>

\* the synthesis fetch of part_004 returns or rejects
MockSynthesisReturns(reply) ==
  /\ handler = "mock"
  /\ pc = "synthesis"
  /\ resp' = mockAfterFetch(req, reply)
  /\ pc' = "done"
  /\ lastReply' = Received("synthesis", reply)
  /\ failed' = IF replyFails("synthesis", reply)
               THEN failed \cup {"synthesis"} ELSE failed
  /\ UNCHANGED <<apiKey, handler, req, data, calls, fn, ret>>


(***************************************************************************)
(* More string methods, for the score analysis and the section splitter.   *)
(***************************************************************************)
LowerOf ==
  "A" :> "a" @@ "B" :> "b" @@ "C" :> "c" @@ "D" :> "d" @@ "E" :> "e" @@ "F" :> "f" @@
  "G" :> "g" @@ "H" :> "h" @@ "I" :> "i" @@ "J" :> "j" @@ "K" :> "k" @@ "L" :> "l" @@
  "M" :> "m" @@ "N" :> "n" @@ "O" :> "o" @@ "P" :> "p" @@ "Q" :> "q" @@ "R" :> "r" @@
  "S" :> "s" @@ "T" :> "t" @@ "U" :> "u" @@ "V" :> "v" @@ "W" :> "w" @@ "X" :> "x" @@
  "Y" :> "y" @@ "Z" :> "z"

UpperOf ==
  "a" :> "A" @@ "b" :> "B" @@ "c" :> "C" @@ "d" :> "D" @@ "e" :> "E" @@ "f" :> "F" @@
  "g" :> "G" @@ "h" :> "H" @@ "i" :> "I" @@ "j" :> "J" @@ "k" :> "K" @@ "l" :> "L" @@
  "m" :> "M" @@ "n" :> "N" @@ "o" :> "O" @@ "p" :> "P" @@ "q" :> "Q" @@ "r" :> "R" @@
  "s" :> "S" @@ "t" :> "T" @@ "u" :> "U" @@ "v" :> "V" @@ "w" :> "W" @@ "x" :> "X" @@
  "y" :> "Y" @@ "z" :> "Z"

\* c.toUpperCase() and c.toLowerCase() of one character
upperChar(c) == IF c \in DOMAIN UpperOf THEN UpperOf[c] ELSE c

lowerChar(c) == IF c \in DOMAIN LowerOf THEN LowerOf[c] ELSE c

\* s.substring(a, b).toLowerCase(), by halves
RECURSIVE lowerRange(_, _, _)
lowerRange(s, a, b) ==
  IF b <= a THEN ""
  ELSE IF b = a + 1 THEN lowerChar(charAt(s, a))
  ELSE LET m == (a + b) \div 2 IN lowerRange(s, a, m) \o lowerRange(s, m, b)

\* s.toLowerCase()
toLowerCase(s) == lowerRange(s, 0, Len(s))

\* trait.charAt(0).toUpperCase() + trait.slice(1)
capitalize(s) == upperChar(charAt(s, 0)) \o substringFrom(s, 1)

\* what \d matches
IsDigit(c) == c \in {"0", "1", "2", "3", "4", "5", "6", "7", "8", "9"}

\* the offset where a greedy run of the character c that starts at i stops
RECURSIVE skipChar(_, _, _)
skipChar(s, c, i) ==
  IF i < Len(s) /\ charAt(s, i) = c THEN skipChar(s, c, i + 1) ELSE i

\* the k-th least member of a set of integers, k from 1
nth(S, k) == CHOOSE x \in S : Cardinality({y \in S : y < x}) = k - 1

\* s.split(sep) for a separator of one character
split(s, sep) ==
  LET at == {i \in 0..(Len(s) - 1) : charAt(s, i) = sep}
      n == Cardinality(at)
      from(k) == IF k = 1 THEN 0 ELSE nth(at, k - 1) + 1
      to(k) == IF k = n + 1 THEN Len(s) ELSE nth(at, k)
  IN [k \in 1..(n + 1) |-> substring(s, from(k), to(k))]

\* String(n) of a number: the decimal digits, or NaN
numberToString(v) == IF v.t = "NaN" THEN "NaN" ELSE ToString(v.n)

\* a - b, Math.abs(a), a >= n and a > n of numbers: NaN is contagious and
\* compares false
minus(a, b) == IF a.t = "NaN" \/ b.t = "NaN" THEN NaN ELSE Num(a.n - b.n)

abs(a) == IF a.t = "NaN" THEN NaN ELSE Num(IF a.n < 0 THEN 0 - a.n ELSE a.n)

atLeast(a, n) == a.t # "NaN" /\ a.n >= n

greaterThan(a, n) == a.t # "NaN" /\ a.n > n

\* Number(v) of a value JSON.parse can give as a score
Number(v) ==
  CASE v.t = "number" -> v
    [] v.t = "null" -> Num(0)
    [] OTHER -> NaN

(***************************************************************************)
(* Handler "transparent" (src/unnamed/part_002): extraction calls, one     *)
(* synthesis call for free text, the section splitter and its fallback.    *)
(***************************************************************************)
\* Humble ${s.humble}/10, Hungry ${s.hungry}/10, Smart ${s.smart}/10
scoreList(scores) ==
  "Humble " \o numberToString(Get(scores, "humble"))
  \o "/10, Hungry " \o numberToString(Get(scores, "hungry"))
  \o "/10, Smart " \o numberToString(Get(scores, "smart")) \o "/10"

\* the body of Object.entries(gaps).forEach for one trait
gapLine(trait, gap) ==
  IF atLeast(abs(gap), 2)
  THEN IF greaterThan(gap, 0)
       THEN "\n* " \o capitalize(trait) \o ": Manager rates "
            \o numberToString(abs(gap))
            \o " points higher - indicates potential area for enhanced self-awareness"
       ELSE "\n* " \o capitalize(trait) \o ": Self-assessment "
            \o numberToString(abs(gap))
            \o " points higher than manager's view - may indicate overconfidence in this area"
  ELSE "\n* " \o capitalize(trait)
       \o ": Good alignment between self and manager assessment ("
       \o numberToString(abs(gap)) \o " point difference)"
\* the gap taken the other way round
gapOfSwapped(employeeScores, managerScores, trait) ==
  minus(Get(employeeScores, trait), Get(managerScores, trait))

\* managerScores[trait] - employeeScores[trait]
gapOf(employeeScores, managerScores, trait) ==
  minus(Get(managerScores, trait), Get(employeeScores, trait))

analyzeITPScores(employeeScores, managerScores) ==
  IF ~Truthy(employeeScores) /\ ~Truthy(managerScores)
  THEN "No ITP assessment data was uploaded or extracted from screenshots."
  ELSE IF ~Truthy(employeeScores)
  THEN "Manager ITP Assessment Only: " \o scoreList(managerScores)
       \o ". Employee self-assessment was not available for comparison analysis."
  ELSE IF ~Truthy(managerScores)
  THEN "Employee Self-Assessment Only: " \o scoreList(employeeScores)
       \o ". Manager assessment was not available for gap analysis."
  ELSE "ITP Score Comparison from Extracted Screenshots:\n* Employee Self-Assessment: "
       \o scoreList(employeeScores)
       \o "\n* Manager Assessment: " \o scoreList(managerScores)
       \o "\n\nGap Analysis:"
       \o gapLine("humble", gapOf(employeeScores, managerScores, "humble"))
       \o gapLine("hungry", gapOf(employeeScores, managerScores, "hungry"))
       \o gapLine("smart", gapOf(employeeScores, managerScores, "smart"))

\* the section names of the header regular expression, in lower case, as
\* words that \s+ separates; Goals? gives two
HeaderPhrases ==
  {<<"greatest", "strength">>, <<"development", "feedback">>,
   <<"goal", "for", "next", "year">>, <<"goals", "for", "next", "year">>,
   <<"overall", "assessment">>}

\* low has the words w[k], w[k+1], ... at offset i, white space between them
RECURSIVE matchWords(_, _, _, _)
matchWords(low, i, w, k) ==
  /\ startsWithAt(low, w[k], i)
  /\ \/ k = Len(w)
     \/ LET j == i + Len(w[k])
            e == skipSpaces(low, j)
        IN e > j /\ matchWords(low, e, w, k + 1)

\* where (?:\d\.|\*\*|##|\n#+) can end when it starts at offset i
markerEnds(low, i) ==
  (IF IsDigit(charAt(low, i)) /\ charAt(low, i + 1) = "." THEN {i + 2} ELSE {})
  \cup (IF startsWithAt(low, "**", i) THEN {i + 2} ELSE {})
  \cup (IF startsWithAt(low, "##", i) THEN {i + 2} ELSE {})
  \cup (IF charAt(low, i) = "\n" /\ charAt(low, i + 1) = "#"
        THEN {skipChar(low, "#", i + 1)} ELSE {})

\* the lookahead of the header regular expression succeeds at offset i
headerAt(low, i) ==
  \E e \in markerEnds(low, i) :
    LET name == skipSpaces(low, e) IN
    \E w \in HeaderPhrases : matchWords(low, name, w, 1)

\* text.split(/(?=header)/i): the text is cut before every header that does
\* not start the text
splitSections(text) ==
  LET low == toLowerCase(text)
      cuts == {i \in 1..(Len(text) - 1) : headerAt(low, i)}
      n == Cardinality(cuts)
      from(k) == IF k = 1 THEN 0 ELSE nth(cuts, k - 1)
      to(k) == IF k = n + 1 THEN Len(text) ELSE nth(cuts, k)
  IN [k \in 1..(n + 1) |-> substring(text, from(k), to(k))]

\* the offset of the first ":" at or after offset i, or the length
skipNotColon(s, i) ==
  SetMin({j \in i..Len(s) : j = Len(s) \/ charAt(s, j) = ":"})

\* one optional "*" at offset i
starAt(s, i) == IF charAt(s, i) = "*" THEN i + 1 ELSE i

\* section.replace(/^\d\.\s*\*?\*?[^:]*:?\s*\*?\*?/i, '').trim()
stripHeader(section) ==
  IF ~(IsDigit(charAt(section, 0)) /\ charAt(section, 1) = ".")
  THEN trim(section)
  ELSE LET a == starAt(section, starAt(section, skipSpaces(section, 2)))
           b == skipNotColon(section, a)
           c == IF charAt(section, b) = ":" THEN b + 1 ELSE b
           d == starAt(section, starAt(section, skipSpaces(section, c)))
       IN trim(substringFrom(section, d))

NoSections ==
  [strengths |-> "", developmentFeedback |-> "", goalsNextYear |-> "",
   overallAssessment |-> ""]

\* the body of sections.forEach: which of the four the section overwrites
sectionKey(section) ==
  LET lowerSection == toLowerCase(section) IN
  IF includes(lowerSection, "strength") THEN "strengths"
  ELSE IF includes(lowerSection, "development") \/ includes(lowerSection, "feedback")
  THEN "developmentFeedback"
  ELSE IF includes(lowerSection, "goal") \/ includes(lowerSection, "next year")
  THEN "goalsNextYear"
  ELSE IF includes(lowerSection, "overall") \/ includes(lowerSection, "assessment")
  THEN "overallAssessment"
  ELSE "none"

\* sections.forEach over sections[k..]
RECURSIVE headerPass(_, _, _)
headerPass(sections, k, out) ==
  IF k > Len(sections) THEN out
  ELSE LET key == sectionKey(sections[k]) IN
       headerPass(sections, k + 1,
                  IF key = "none" THEN out
                  ELSE [out EXCEPT ![key] = stripHeader(sections[k])])

\* the four `if (currentSection === ...) x = content.trim()` of the scan
store(out, currentSection, content) ==
  CASE currentSection = "strengths" -> [out EXCEPT !.strengths = trim(content)]
    [] currentSection = "development" -> [out EXCEPT !.developmentFeedback = trim(content)]
    [] currentSection = "goals" -> [out EXCEPT !.goalsNextYear = trim(content)]
    [] currentSection = "overall" -> [out EXCEPT !.overallAssessment = trim(content)]
    [] OTHER -> out

\* lines.forEach over lines[k..]; st is <<out, currentSection, content>>
RECURSIVE linePass(_, _, _, _, _)
linePass(lines, k, out, currentSection, content) ==
  IF k > Len(lines)
  THEN IF content # "" THEN store(out, currentSection, content) ELSE out
  ELSE LET low == toLowerCase(lines[k]) IN
       IF includes(low, "strength")
       THEN linePass(lines, k + 1,
                     IF content # "" THEN store(out, currentSection, content) ELSE out,
                     "strengths", "")
       ELSE IF includes(low, "development") \/ includes(low, "feedback")
       THEN linePass(lines, k + 1,
                     IF content # "" /\ currentSection = "strengths"
                     THEN store(out, currentSection, content) ELSE out,
                     "development", "")
       ELSE IF includes(low, "goal") \/ includes(low, "next year")
       THEN linePass(lines, k + 1,
                     IF content # "" /\ currentSection = "development"
                     THEN store(out, currentSection, content) ELSE out,
                     "goals", "")
       ELSE IF includes(low, "overall") \/ includes(low, "assessment")
       THEN linePass(lines, k + 1,
                     IF content # "" /\ currentSection = "goals"
                     THEN store(out, currentSection, content) ELSE out,
                     "overall", "")
       ELSE linePass(lines, k + 1, out, currentSection, content \o lines[k] \o "\n")

UnableStrengths == "Unable to extract strengths section from generated review."

UnableDevelopment ==
  "Unable to extract development feedback section from generated review."

UnableGoals == "Unable to extract goals section from generated review."

UnableOverall ==
  "Unable to extract overall assessment section from generated review."
\* an empty section left as it is
orTextKept(x, placeholder) == x

\* x || placeholder of two strings
orText(x, placeholder) == IF x # "" THEN x ELSE placeholder

parseSynthesizedReview(text) ==
  LET first == headerPass(splitSections(text), 1, NoSections)
      found ==
        IF first = NoSections
        THEN linePass(split(text, "\n"), 1, NoSections, "", "")
        ELSE first
  IN [strengths |-> Str(orText(found.strengths, UnableStrengths)),
      developmentFeedback |-> Str(orText(found.developmentFeedback, UnableDevelopment)),
      goalsNextYear |-> Str(orText(found.goalsNextYear, UnableGoals)),
      overallAssessment |-> Str(orText(found.overallAssessment, UnableOverall))]

\* extractITPScores of part_002, from the return of its fetch
extractITPScores(reply) ==
  IF reply.outcome = "rejected" THEN Null
  ELSE IF ~reply.ok THEN Null
  ELSE IF reply.body = Unparsable \/ messageText(reply.body).throws THEN Null
  ELSE LET extractedText == OrElse(messageText(reply.body).v, Str("{}")) IN
       IF extractedText.t # "string" THEN Null
       ELSE LET parsed == JSONParse(trim(removeFences(extractedText.s))) IN
            IF parsed.throws \/ Nullish(parsed.v) THEN Null
            ELSE IF /\ Get(parsed.v, "humble") # Null
                    /\ Get(parsed.v, "hungry") # Null
                    /\ Get(parsed.v, "smart") # Null
                 THEN ITPScores(Number(Get(parsed.v, "humble")),
                                Number(Get(parsed.v, "hungry")),
                                Number(Get(parsed.v, "smart")))
                 ELSE Null

\* extractPDFText of part_002: a canned analysis that names the file
extractPDFText(name) ==
  "360 FEEDBACK ANALYSIS (Extracted from " \o name \o "):\n\n"
  \o "LEADERSHIP & STRATEGIC THINKING:\n"
  \o "* Demonstrates strong systems-level approach to problem solving\n"
  \o "* Effectively bridges technical complexity with business requirements\n"
  \o "* Shows ability to see big picture while managing granular details\n"
  \o "* Leads cross-functional initiatives with clear strategic vision\n\n"
  \o "COLLABORATION & COMMUNICATION:\n"
  \o "* Works effectively across departments and stakeholder groups\n"
  \o "* Translates complex technical concepts for non-technical audiences\n"
  \o "* Builds consensus around solutions and implementation approaches\n"
  \o "* Maintains productive relationships during challenging projects\n\n"
  \o "EXECUTION & DELIVERY:\n"
  \o "* Consistently delivers high-quality results on time\n"
  \o "* Takes ownership of end-to-end project lifecycle\n"
  \o "* Proactively identifies and mitigates potential issues\n"
  \o "* Follows through on commitments and communication\n\n"
  \o "DEVELOPMENT OPPORTUNITIES:\n"
  \o "* Enhance proactive communication during busy periods\n"
  \o "* Strengthen delegation skills to scale personal impact\n"
  \o "* Develop more systematic approaches to workload management\n"
  \o "* Build structured feedback loops with team members\n\n"
  \o "This analysis is based on comprehensive 360-degree feedback from peers, direct reports, and senior stakeholders."

\* extractSelfReviewText of part_002, from the return of its fetch
extractSelfReviewText(reply) ==
  IF reply.outcome = "rejected"
  THEN Str("[Error processing self-review screenshots]")
  ELSE IF ~reply.ok
  THEN Str("[Unable to extract text from screenshots - API error]")
  ELSE IF reply.body = Unparsable \/ messageText(reply.body).throws
  THEN Str("[Error processing self-review screenshots]")
  ELSE OrElse(messageText(reply.body).v,
              Str("[Unable to extract self-review text from screenshots]"))
\* the presence map with a scores flag that asks for both assessments
dataUsedBothScores(d) ==
  [itpScores |-> Truthy(d.itpEmployeeScores) /\ Truthy(d.itpManagerScores),
   feedback360 |-> Truthy(d.feedback360Text),
   selfReview |-> Truthy(d.selfReviewText),
   managerComments |-> Len(trim(d.managerComments.s)) > 0]

\* the presence map with a comments flag that does not trim
dataUsedUntrimmed(d) ==
  [itpScores |-> Truthy(d.itpEmployeeScores) \/ Truthy(d.itpManagerScores),
   feedback360 |-> Truthy(d.feedback360Text),
   selfReview |-> Truthy(d.selfReviewText),
   managerComments |-> Len(d.managerComments.s) > 0]

\* the presence map of synthesizeReview
dataUsedOf(d) ==
  [itpScores |-> Truthy(d.itpEmployeeScores) \/ Truthy(d.itpManagerScores),
   feedback360 |-> Truthy(d.feedback360Text),
   selfReview |-> Truthy(d.selfReviewText),
   managerComments |-> Len(trim(d.managerComments.s)) > 0]

\* text ? text.substring(0, 200) + '...' : null
summaryOf(text) ==
  IF Truthy(text) THEN Str(substring(text.s, 0, 200) \o "...") ELSE Null

\* a truthy value without a substring method makes the echo throw
extractedDataThrows(d) ==
  Truthy(d.selfReviewText) /\ d.selfReviewText.t # "string"

extractedDataOf(d) ==
  [itpEmployeeScores |-> d.itpEmployeeScores,
   itpManagerScores |-> d.itpManagerScores,
   feedback360Summary |-> summaryOf(d.feedback360Text),
   selfReviewSummary |-> summaryOf(d.selfReviewText)]

availableDataSummary(dataUsed) ==
  "This review is based on the following data sources:\n"
  \o (IF dataUsed.itpScores
      THEN "[x] ITP Assessment scores extracted from screenshots"
      ELSE "[ ] No ITP assessment data")
  \o "\n"
  \o (IF dataUsed.feedback360
      THEN "[x] 360 feedback document analysis"
      ELSE "[ ] No 360 feedback provided")
  \o "  \n"
  \o (IF dataUsed.selfReview
      THEN "[x] Self-review text extracted from screenshots"
      ELSE "[ ] No self-review content")
  \o "\n"
  \o (IF dataUsed.managerComments
      THEN "[x] Manager observations and comments"
      ELSE "[ ] No manager comments provided")

fallbackStrengths(d, itpAnalysis, dataUsed) ==
  availableDataSummary(dataUsed)
  \o "\n\nIDENTIFIED STRENGTHS:\n\n"
  \o (IF Truthy(d.itpEmployeeScores) \/ Truthy(d.itpManagerScores)
      THEN "ITP Assessment Analysis:\n" \o itpAnalysis
           \o "\n\nBased on the ITP scores, key strength areas include the traits scoring 7+ on the assessment scale."
      ELSE "No ITP assessment data was available to identify strength patterns.")
  \o "\n\n"
  \o (IF Truthy(d.feedback360Text)
      THEN "360 Feedback Highlights:\nThe comprehensive feedback analysis reveals consistent themes around strategic thinking, cross-functional collaboration, and technical expertise delivery."
      ELSE "No 360 feedback was provided for strength identification.")
  \o "\n\n"
  \o (IF Truthy(d.selfReviewText)
      THEN "Self-Review Insights:\nBased on extracted self-review content, the employee demonstrates self-awareness and proactive approach to professional development."
      ELSE "No self-review content was available for analysis.")
  \o "\n\n"
  \o (IF Truthy(d.managerComments)
      THEN "Manager Observations:\n" \o d.managerComments.s
      ELSE "No additional manager comments were provided.")

fallbackDevelopment(d, itpAnalysis, dataUsed) ==
  "DEVELOPMENT OPPORTUNITIES:\n\n"
  \o (IF Truthy(d.itpEmployeeScores) /\ Truthy(d.itpManagerScores)
      THEN "ITP Gap Analysis:\n" \o itpAnalysis
           \o "\n\nDevelopment focus should address any significant gaps between self and manager assessments."
      ELSE "Limited ITP data available for gap analysis and development planning.")
  \o "\n\n"
  \o (IF Truthy(d.feedback360Text)
      THEN "360 Feedback Development Areas:\nBased on feedback analysis, key development opportunities center around communication consistency, project execution follow-through, and stakeholder management."
      ELSE "No 360 feedback available to identify specific development areas.")
  \o "\n\n"
  \o (IF Truthy(d.selfReviewText)
      THEN "Self-Identified Growth Areas:\nThe extracted self-review content provides insight into the employee's own development priorities and growth aspirations."
      ELSE "No self-review data available for development planning.")
  \o "\n\nRecommendations are based strictly on the data sources indicated above."

fallbackGoals(d, itpAnalysis, dataUsed) ==
  "DEVELOPMENT GOALS (Based on Available Data):\n\n"
  \o (IF dataUsed.itpScores
      THEN "1. **ITP Enhancement**: Focus on areas showing gaps in the Humble/Hungry/Smart assessment comparison.\n\n2. **Self-Awareness Calibration**: Align self-perception with manager and peer feedback for accurate development targeting."
      ELSE "1. **Assessment Completion**: Complete ITP assessment for baseline development planning.")
  \o "\n\n"
  \o (IF dataUsed.feedback360
      THEN "3. **Communication Systems**: Implement structured approaches to stakeholder communication and project updates based on 360 feedback themes.\n\n4. **Execution Excellence**: Develop consistent follow-through processes for project completion and commitment delivery."
      ELSE "3. **Feedback Collection**: Gather comprehensive 360 feedback for targeted development planning.")
  \o "\n\n"
  \o (IF dataUsed.selfReview
      THEN "5. **Personal Development Plan**: Build on self-identified growth areas from review responses with specific, measurable objectives."
      ELSE "5. **Self-Reflection**: Complete structured self-review for development goal identification.")
  \o "\n\nThese goals are directly derived from the available assessment data and feedback sources."

fallbackOverall(d, itpAnalysis, dataUsed) ==
  "COMPREHENSIVE ASSESSMENT SUMMARY:\n\nThis review synthesizes information from "
  \o ToString(countUsed(dataUsed)) \o " of 4 possible data sources:\n\n"
  \o availableDataSummary(dataUsed)
  \o "\n\n"
  \o (IF Truthy(d.itpEmployeeScores) /\ Truthy(d.itpManagerScores)
      THEN "The ITP assessment provides objective performance indicators with specific numerical benchmarks for development planning. "
           \o itpAnalysis
      ELSE "ITP assessment data would significantly enhance the objectivity of this performance evaluation.")
  \o "\n\n"
  \o (IF Truthy(d.feedback360Text)
      THEN "The 360 feedback offers comprehensive stakeholder perspective on performance impact and collaboration effectiveness across the organization."
      ELSE "360 feedback would provide valuable multi-stakeholder perspective for this assessment.")
  \o "\n\n"
  \o (IF Truthy(d.selfReviewText)
      THEN "The self-review content demonstrates employee self-awareness and professional development orientation based on extracted responses."
      ELSE "Employee self-review input would enhance understanding of personal development priorities and career aspirations.")
  \o "\n\n"
  \o (IF Truthy(d.managerComments)
      THEN "Manager observations provide direct supervisory context: " \o d.managerComments.s
      ELSE "Manager observations would provide valuable supervisory context for performance evaluation.")
  \o "\n\nOverall assessment confidence level: "
  \o ToString((countUsed(dataUsed) * 100) \div 4)
  \o "% based on available data sources."

NumberedReview ==
  "1. Greatest Strengths\nkind\n2. Development Feedback\nslow\n3. Goals for Next Year\ngrow\n4. Overall Assessment\nfine"

KeywordReview == "Strengths\nkind\nDevelopment\nslow\nGoals\ngrow\nOverall\nfine"

\* the texts the model's service writes as a review
\* parseSynthesizedReview(synthesizedText), computed once for the sample texts
parsedSamples ==
  ("" :> parseSynthesizedReview(""))
  @@ (NumberedReview :> parseSynthesizedReview(NumberedReview))
  @@ (KeywordReview :> parseSynthesizedReview(KeywordReview))

parsedReview(text) ==
  IF text \in DOMAIN parsedSamples THEN parsedSamples[text]
  ELSE parseSynthesizedReview(text)

\* the object generateTransparentFallbackReview returns, when building its
\* extractedData does not throw
generateTransparentFallbackReview(d, itpAnalysis, dataUsed) ==
  [strengths |-> Str(fallbackStrengths(d, itpAnalysis, dataUsed)),
   developmentFeedback |-> Str(fallbackDevelopment(d, itpAnalysis, dataUsed)),
   goalsNextYear |-> Str(fallbackGoals(d, itpAnalysis, dataUsed)),
   overallAssessment |-> Str(fallbackOverall(d, itpAnalysis, dataUsed)),
   dataUsed |-> dataUsed,
   extractedData |-> extractedDataOf(d)]

\* return generateTransparentFallbackReview(...) of synthesizeReview: the
\* throw of the extractedData echo is caught by POST alone
transparentFallbackResponse(d) ==
  IF extractedDataThrows(d)
  THEN ErrorResponse("data.selfReviewText.substring is not a function")
  ELSE Respond(200,
         generateTransparentFallbackReview(
           d, analyzeITPScores(d.itpEmployeeScores, d.itpManagerScores),
           dataUsedOf(d)))

\* synthesizeReview of part_002 from the return of its fetch, and the
\* NextResponse.json of POST
synthesizeReview(d, reply) ==
  IF reply.outcome = "rejected" THEN transparentFallbackResponse(d)
  ELSE IF ~reply.ok THEN transparentFallbackResponse(d)
  ELSE IF reply.body = Unparsable \/ messageText(reply.body).throws
  THEN transparentFallbackResponse(d)
  ELSE LET synthesizedText == OrElse(messageText(reply.body).v, Str("")) IN
       IF synthesizedText.t # "string" \/ extractedDataThrows(d)
       THEN transparentFallbackResponse(d)
       ELSE Respond(200,
              [dataUsed |-> dataUsedOf(d), extractedData |-> extractedDataOf(d)]
              @@ parsedReview(synthesizedText.s))

(***************************************************************************)
(* Handler "transparent" (src/unnamed/part_002): POST awaits the calls of  *)
(* processUploadedData one after another, then the synthesis call.         *)
(***************************************************************************)
\* without a key the service authenticates no call
Replies(S) == IF apiKey THEN S ELSE {Rejected, HttpError(401)}

ScoreReplies ==
  {Rejected, HttpError(500), HttpOk(Unparsable), HttpOk(EmptyMessage)}
  \cup {HttpOk(Message(Str(t))) :
          t \in {ScoresJson555, ScoresJsonFenced, ScoresJsonPartial,
                 ScoresJsonNulls, "I cannot read the image."}}

SelfReviewReplies ==
  {Rejected, HttpError(500), HttpOk(Unparsable), HttpOk(EmptyMessage),
   HttpOk(Message(Str("I led the migration."))), HttpOk(Message(Num(5)))}

SynthesisReplies ==
  {Rejected, HttpError(500), HttpOk(Unparsable), HttpOk(Null),
   HttpOk(NoContentBody), HttpOk(EmptyMessage), HttpOk(Message(Num(5))),
   HttpOk(Message(Str(NumberedReview))), HttpOk(Message(Str(KeywordReview)))}
\* the awaits of processUploadedData without the one of the self review
nextCallWithoutSelfReview(r, after) ==
  IF after = "start" /\ r.itpEmployeeScreenshots > 0 THEN "itpEmployee"
  ELSE IF after \in {"start", "itpEmployee"} /\ r.itpManagerScreenshots > 0
  THEN "itpManager"
  ELSE "synthesis"

\* the awaits of processUploadedData without their checks of files.length
nextCallUnchecked(r, after) ==
  IF after = "start" THEN "itpEmployee"
  ELSE IF after = "itpEmployee" THEN "itpManager"
  ELSE IF after = "itpManager" THEN "selfReview"
  ELSE "synthesis"

\* the next await of POST after the stage that has just ended
nextCall(r, after) ==
  IF after = "start" /\ r.itpEmployeeScreenshots > 0 THEN "itpEmployee"
  ELSE IF after \in {"start", "itpEmployee"} /\ r.itpManagerScreenshots > 0
  THEN "itpManager"
  ELSE IF after # "selfReview" /\ r.selfReviewScreenshots > 0 THEN "selfReview"
  ELSE "synthesis"

FeedbackFileName == "feedback.pdf"

\* processUploadedData reads the feedback document between the manager's
\* screenshots and the self review's
feedbackStage(d, r, after, next) ==
  IF r.feedback360 /\ after # "selfReview" /\ next \in {"selfReview", "synthesis"}
  THEN [d EXCEPT !.feedback360Text = Str(extractPDFText(FeedbackFileName))]
  ELSE d

\* a request reaches POST of part_002, which runs to its first await
POSTTransparent(r) ==
  /\ handler = "transparent"
  /\ pc = "idle"
  /\ req' = r
  /\ IF ~r.formOk
     THEN /\ resp' = ErrorResponse("Failed to parse body as FormData.")
          /\ pc' = "done"
          /\ data' = NoData
          /\ calls' = <<>>
     ELSE LET next == nextCall(r, "start")
              d == [NoData EXCEPT !.managerComments = Str(managerCommentsOf(r))]
          IN /\ resp' = NoResponse
             /\ pc' = next
             /\ data' = feedbackStage(d, r, "start", next)
             /\ calls' = <<next>>
  /\ lastReply' = NoReply
  /\ failed' = {}
  /\ UNCHANGED <<apiKey, handler, fn, ret>>

\* the call of extractITPScores(itpEmployeeFiles, 'employee') returns
ITPEmployeeReturns(reply) ==
  /\ handler = "transparent"
  /\ pc = "itpEmployee"
  /\ LET next == nextCall(req, "itpEmployee")
         d == [data EXCEPT !.itpEmployeeScores = extractITPScores(reply)]
     IN /\ pc' = next
        /\ data' = feedbackStage(d, req, "itpEmployee", next)
        /\ calls' = Append(calls, next)
  /\ lastReply' = Received("itpEmployee", reply)
  /\ failed' = IF replyFails("itpEmployee", reply)
               THEN failed \cup {"itpEmployee"} ELSE failed
  /\ UNCHANGED <<apiKey, handler, req, resp, fn, ret>>

\* the call of extractITPScores(itpManagerFiles, 'manager') returns
ITPManagerReturns(reply) ==
  /\ handler = "transparent"
  /\ pc = "itpManager"
  /\ LET next == nextCall(req, "itpManager")
         d == [data EXCEPT !.itpManagerScores = extractITPScores(reply)]
     IN /\ pc' = next
        /\ data' = feedbackStage(d, req, "itpManager", next)
        /\ calls' = Append(calls, next)
  /\ lastReply' = Received("itpManager", reply)
  /\ failed' = IF replyFails("itpManager", reply)
               THEN failed \cup {"itpManager"} ELSE failed
  /\ UNCHANGED <<apiKey, handler, req, resp, fn, ret>>

\* the call of extractSelfReviewText returns
SelfReviewReturns(reply) ==
  /\ handler = "transparent"
  /\ pc = "selfReview"
  /\ pc' = "synthesis"
  /\ data' = [data EXCEPT !.selfReviewText = extractSelfReviewText(reply)]
  /\ calls' = Append(calls, "synthesis")
  /\ lastReply' = Received("selfReview", reply)
  /\ failed' = IF replyFails("selfReview", reply)
               THEN failed \cup {"selfReview"} ELSE failed
  /\ UNCHANGED <<apiKey, handler, req, resp, fn, ret>>

\* the fetch of synthesizeReview returns, and POST responds
SynthesisReturns(reply) ==
  /\ handler = "transparent"
  /\ pc = "synthesis"
  /\ resp' = synthesizeReview(data, reply)
  /\ pc' = "done"
  /\ lastReply' = Received("synthesis", reply)
  /\ failed' = IF replyFails("synthesis", reply)
               THEN failed \cup {"synthesis"} ELSE failed
  /\ UNCHANGED <<apiKey, handler, req, data, calls, fn, ret>>

(***************************************************************************)
(* Handler "route" (src/app/api/synthesize/route.ts, its first POST): the  *)
(* same sequence of calls; the response carries the four texts only.       *)
(***************************************************************************)
\* extractITPScores of route.ts, from the return of its fetch: the text is
\* parsed as it came
extractITPScoresRoute(reply) ==
  IF reply.outcome = "rejected" THEN Null
  ELSE IF ~reply.ok THEN Null
  ELSE IF reply.body = Unparsable \/ messageText(reply.body).throws THEN Null
  ELSE LET extractedText == OrElse(messageText(reply.body).v, Str("{}")) IN
       IF extractedText.t # "string"
       THEN ITPScores(NaN, NaN, NaN)
       ELSE LET parsed == JSONParse(extractedText.s) IN
            IF parsed.throws \/ Nullish(parsed.v) THEN Null
            ELSE IF /\ Get(parsed.v, "humble") # Null
                    /\ Get(parsed.v, "hungry") # Null
                    /\ Get(parsed.v, "smart") # Null
                 THEN ITPScores(Number(Get(parsed.v, "humble")),
                                Number(Get(parsed.v, "hungry")),
                                Number(Get(parsed.v, "smart")))
                 ELSE Null

extractPDFTextRoute(name) ==
  "[360 Feedback extracted from " \o name \o "]\n\n"
  \o "This employee demonstrates strong technical capabilities and strategic thinking. Key themes from the 360 feedback include:\n\n"
  \o "STRENGTHS:\n"
  \o "- Systems-level thinking and problem-solving\n"
  \o "- Cross-functional collaboration and communication\n"
  \o "- Technical expertise and innovation\n"
  \o "- Strategic vision combined with hands-on execution\n\n"
  \o "DEVELOPMENT AREAS:  \n"
  \o "- Communication consistency and responsiveness\n"
  \o "- Project follow-through and execution discipline\n"
  \o "- Time management and workload prioritization\n"
  \o "- Leadership transition and team development\n\n"
  \o "The feedback indicates strong potential with focused development opportunities that will amplify existing capabilities."

\* extractSelfReviewText of route.ts: a non-success status throws into the
\* catch
extractSelfReviewTextRoute(reply) ==
  IF reply.outcome = "rejected" \/ ~reply.ok
  THEN Str("[Error processing self-review screenshots]")
  ELSE IF reply.body = Unparsable \/ messageText(reply.body).throws
  THEN Str("[Error processing self-review screenshots]")
  ELSE OrElse(messageText(reply.body).v,
              Str("[Unable to extract self-review text from screenshots]"))

\* the body of Object.entries(gaps).forEach of route.ts for one trait
gapLineRoute(trait, gap) ==
  IF atLeast(abs(gap), 2)
  THEN IF greaterThan(gap, 0)
       THEN "\n- " \o trait \o ": Manager rates " \o numberToString(abs(gap))
            \o " points higher - potential blind spot in self-awareness"
       ELSE "\n- " \o trait \o ": Self-assessment " \o numberToString(abs(gap))
            \o " points higher - may indicate overconfidence"
  ELSE "\n- " \o trait \o ": Good alignment between self and manager assessment"

analyzeITPScoresRoute(employeeScores, managerScores) ==
  IF ~Truthy(employeeScores) /\ ~Truthy(managerScores)
  THEN "ITP assessment data not available for analysis."
  ELSE IF ~Truthy(employeeScores)
  THEN "Manager ITP Assessment: " \o scoreList(managerScores)
       \o ". Employee self-assessment not available for comparison."
  ELSE IF ~Truthy(managerScores)
  THEN "Employee Self-Assessment: " \o scoreList(employeeScores)
       \o ". Manager assessment not available for comparison."
  ELSE "ITP Score Comparison:\nEmployee: " \o scoreList(employeeScores)
       \o "\nManager: " \o scoreList(managerScores)
       \o "\n\nGap Analysis:"
       \o gapLineRoute("humble", gapOf(employeeScores, managerScores, "humble"))
       \o gapLineRoute("hungry", gapOf(employeeScores, managerScores, "hungry"))
       \o gapLineRoute("smart", gapOf(employeeScores, managerScores, "smart"))

\* the lookahead \d\.\s|\*\*|\#\# succeeds at offset i
markerAt(text, i) ==
  \/ IsDigit(charAt(text, i)) /\ charAt(text, i + 1) = "." /\ IsSpace(charAt(text, i + 2))
  \/ startsWithAt(text, "**", i)
  \/ startsWithAt(text, "##", i)

\* text.split(/(?=\d\.\s|\*\*|\#\#)/)
splitSectionsRoute(text) ==
  LET cuts == {i \in 1..(Len(text) - 1) : markerAt(text, i)}
      n == Cardinality(cuts)
      from(k) == IF k = 1 THEN 0 ELSE nth(cuts, k - 1)
      to(k) == IF k = n + 1 THEN Len(text) ELSE nth(cuts, k)
  IN [k \in 1..(n + 1) |-> substring(text, from(k), to(k))]

sectionKeyRoute(section) ==
  LET lowerSection == toLowerCase(section) IN
  IF includes(lowerSection, "strength") \/ includes(lowerSection, "1.")
  THEN "strengths"
  ELSE IF \/ includes(lowerSection, "development")
          \/ includes(lowerSection, "feedback")
          \/ includes(lowerSection, "2.")
  THEN "developmentFeedback"
  ELSE IF \/ includes(lowerSection, "goal")
          \/ includes(lowerSection, "next year")
          \/ includes(lowerSection, "3.")
  THEN "goalsNextYear"
  ELSE IF \/ includes(lowerSection, "overall")
          \/ includes(lowerSection, "assessment")
          \/ includes(lowerSection, "4.")
  THEN "overallAssessment"
  ELSE "none"

\* sections.forEach of route.ts over sections[k..]
RECURSIVE headerPassRoute(_, _, _)
headerPassRoute(sections, k, out) ==
  IF k > Len(sections) THEN out
  ELSE LET key == sectionKeyRoute(sections[k]) IN
       headerPassRoute(sections, k + 1,
                       IF key = "none" THEN out
                       ELSE [out EXCEPT ![key] = stripHeader(sections[k])])

parseSynthesizedReviewRoute(text) ==
  LET found == headerPassRoute(splitSectionsRoute(text), 1, NoSections) IN
  [strengths |->
     Str(orText(found.strengths,
                "Strengths analysis will be generated based on uploaded screenshots and feedback.")),
   developmentFeedback |->
     Str(orText(found.developmentFeedback,
                "Development feedback will be synthesized from all input sources.")),
   goalsNextYear |->
     Str(orText(found.goalsNextYear,
                "Goals will be established based on identified development areas and career aspirations.")),
   overallAssessment |->
     Str(orText(found.overallAssessment,
                "Overall assessment will provide a balanced perspective on performance and potential."))]

\* parseSynthesizedReview(synthesizedText) of route.ts, computed once for
\* the sample texts
parsedSamplesRoute ==
  ("" :> parseSynthesizedReviewRoute(""))
  @@ (NumberedReview :> parseSynthesizedReviewRoute(NumberedReview))
  @@ (KeywordReview :> parseSynthesizedReviewRoute(KeywordReview))

parsedReviewRoute(text) ==
  IF text \in DOMAIN parsedSamplesRoute THEN parsedSamplesRoute[text]
  ELSE parseSynthesizedReviewRoute(text)

generateFallbackReview(d, itpAnalysis) ==
  [strengths |->
     Str("Based on the comprehensive analysis of uploaded screenshots and documents, key strengths emerge across multiple assessment dimensions:\n\n"
         \o "* Strong alignment between self-perception and manager evaluation indicates good self-awareness\n"
         \o "* Demonstrates consistent performance across ITP assessment categories\n"
         \o "* Self-review responses show proactive approach to professional development\n"
         \o "* Manager observations confirm reliable execution and collaborative mindset\n"
         \o "* Evidence of strategic thinking combined with practical implementation skills\n\n"
         \o (IF Truthy(d.feedback360Text)
             THEN "The 360 feedback reinforces these observations with specific examples of cross-functional impact and stakeholder value creation."
             ELSE "")),
   developmentFeedback |->
     Str("Development opportunities identified through multi-source assessment analysis:\n\n"
         \o "* Focus on enhancing communication frequency and consistency with stakeholders\n"
         \o "* Strengthen project management systems to ensure reliable follow-through on commitments  \n"
         \o "* Develop more structured approaches to time management and priority setting\n"
         \o "* Build delegation skills to scale personal impact through team development\n\n"
         \o (IF includes(itpAnalysis, "gap")
             THEN "The ITP assessment reveals some perception gaps that create opportunities for enhanced self-awareness and calibrated goal-setting."
             ELSE "ITP scores show good calibration between self and manager perspectives, providing solid foundation for development planning.")),
   goalsNextYear |->
     Str("Strategic development goals based on comprehensive assessment synthesis:\n\n"
         \o "1. **Communication Excellence**: Implement consistent stakeholder update protocols and proactive project communication systems.\n\n"
         \o "2. **Execution Reliability**: Establish structured project management approaches ensuring consistent delivery from initiation through completion.\n\n"
         \o "3. **Leadership Capacity**: Develop team amplification skills through effective delegation, mentoring, and process improvement.\n\n"
         \o "4. **Strategic Impact**: Focus technical expertise on highest-value organizational initiatives while maintaining operational excellence.\n\n"
         \o "5. **Professional Growth**: Pursue targeted skill development in areas identified through multi-source feedback analysis."),
   overallAssessment |->
     Str("This comprehensive review synthesizes insights from ITP assessments, visual documentation analysis, "
         \o (IF Truthy(d.feedback360Text) THEN "360-degree feedback, " ELSE "")
         \o "self-reflection, and manager observations to provide a complete performance picture.\n\n"
         \o "The employee demonstrates strong foundational capabilities with clear pathways for enhanced impact. The alignment between different assessment sources indicates good self-awareness and realistic professional outlook. Development opportunities represent natural evolution rather than fundamental capability gaps.\n\n"
         \o "With focused attention on the identified growth areas-particularly communication consistency and systematic execution-this individual is well-positioned for significant professional advancement and increased organizational value creation.\n\n"
         \o "The multi-modal assessment approach provides confident basis for development planning and career progression discussions.")]

\* synthesizeReview of route.ts from the return of its fetch, and the
\* NextResponse.json of POST: every failure lands in the catch
synthesizeReviewRoute(d, reply) ==
  LET fallback ==
        generateFallbackReview(
          d, analyzeITPScoresRoute(d.itpEmployeeScores, d.itpManagerScores))
  IN
  IF reply.outcome = "rejected" THEN Respond(200, fallback)
  ELSE IF ~reply.ok THEN Respond(200, fallback)
  ELSE IF reply.body = Unparsable \/ messageText(reply.body).throws
  THEN Respond(200, fallback)
  ELSE LET synthesizedText == OrElse(messageText(reply.body).v, Str("")) IN
       IF synthesizedText.t # "string"
       THEN Respond(200, fallback)
       ELSE Respond(200, parsedReviewRoute(synthesizedText.s))

feedbackStageRoute(d, r, after, next) ==
  IF r.feedback360 /\ after # "selfReview" /\ next \in {"selfReview", "synthesis"}
  THEN [d EXCEPT !.feedback360Text = Str(extractPDFTextRoute(FeedbackFileName))]
  ELSE d

\* a request reaches POST of route.ts, which runs to its first await
POSTRoute(r) ==
  /\ handler = "route"
  /\ pc = "idle"
  /\ req' = r
  /\ IF ~r.formOk
     THEN /\ resp' = ErrorResponse("Failed to parse body as FormData.")
          /\ pc' = "done"
          /\ data' = NoData
          /\ calls' = <<>>
     ELSE LET next == nextCall(r, "start")
              d == [NoData EXCEPT !.managerComments = Str(managerCommentsOf(r))]
          IN /\ resp' = NoResponse
             /\ pc' = next
             /\ data' = feedbackStageRoute(d, r, "start", next)
             /\ calls' = <<next>>
  /\ lastReply' = NoReply
  /\ failed' = {}
  /\ UNCHANGED <<apiKey, handler, fn, ret>>

RouteITPEmployeeReturns(reply) ==
  /\ handler = "route"
  /\ pc = "itpEmployee"
  /\ LET next == nextCall(req, "itpEmployee")
         d == [data EXCEPT !.itpEmployeeScores = extractITPScoresRoute(reply)]
     IN /\ pc' = next
        /\ data' = feedbackStageRoute(d, req, "itpEmployee", next)
        /\ calls' = Append(calls, next)
  /\ lastReply' = Received("itpEmployee", reply)
  /\ failed' = IF replyFails("itpEmployee", reply)
               THEN failed \cup {"itpEmployee"} ELSE failed
  /\ UNCHANGED <<apiKey, handler, req, resp, fn, ret>>

RouteITPManagerReturns(reply) ==
  /\ handler = "route"
  /\ pc = "itpManager"
  /\ LET next == nextCall(req, "itpManager")
         d == [data EXCEPT !.itpManagerScores = extractITPScoresRoute(reply)]
     IN /\ pc' = next
        /\ data' = feedbackStageRoute(d, req, "itpManager", next)
        /\ calls' = Append(calls, next)
  /\ lastReply' = Received("itpManager", reply)
  /\ failed' = IF replyFails("itpManager", reply)
               THEN failed \cup {"itpManager"} ELSE failed
  /\ UNCHANGED <<apiKey, handler, req, resp, fn, ret>>

RouteSelfReviewReturns(reply) ==
  /\ handler = "route"
  /\ pc = "selfReview"
  /\ pc' = "synthesis"
  /\ data' = [data EXCEPT !.selfReviewText = extractSelfReviewTextRoute(reply)]
  /\ calls' = Append(calls, "synthesis")
  /\ lastReply' = Received("selfReview", reply)
  /\ failed' = IF replyFails("selfReview", reply)
               THEN failed \cup {"selfReview"} ELSE failed
  /\ UNCHANGED <<apiKey, handler, req, resp, fn, ret>>

RouteSynthesisReturns(reply) ==
  /\ handler = "route"
  /\ pc = "synthesis"
  /\ resp' = synthesizeReviewRoute(data, reply)
  /\ pc' = "done"
  /\ lastReply' = Received("synthesis", reply)
  /\ failed' = IF replyFails("synthesis", reply)
               THEN failed \cup {"synthesis"} ELSE failed
  /\ UNCHANGED <<apiKey, handler, req, data, calls, fn, ret>>

(***************************************************************************)
(* Handler "json" (src/app/api/synthesize/route.ts lines 414-609): the     *)
(* request body is a JSON object of two score triples and three texts,     *)
(* and the review is put together without any external call.               *)
(***************************************************************************)
\* a TypeError thrown while a function runs, and a value it returns
TypeError == [throws |-> TRUE]

Returned(v) == [throws |-> FALSE, v |-> v]

\* array.join(sep)
RECURSIVE join(_, _)
join(a, sep) ==
  IF Len(a) = 0 THEN ""
  ELSE IF Len(a) = 1 THEN a[1]
  ELSE a[1] \o sep \o join(Tail(a), sep)

\* array.slice(0, n)
sliceTo(a, n) == SubSeq(a, 1, Min(n, Len(a)))

\* ((a + b) / 2).toFixed(1) of two integers, from their sum
avgToFixed(sum) == ToString(sum \div 2) \o (IF sum % 2 = 0 THEN ".0" ELSE ".5")

\* the line analyzeITPScores pushes for a trait whose gap is 2 or more
gapTextJson(trait, selfScores, managerScores) ==
  LET m == Get(managerScores, trait).n
      s == Get(selfScores, trait).n
  IN IF m - s > 0
     THEN "Manager rates " \o trait \o " higher than self-assessment ("
          \o ToString(m) \o " vs " \o ToString(s)
          \o ") - potential blind spot in self-awareness"
     ELSE "Self-assessment in " \o trait \o " is higher than manager perspective ("
          \o ToString(s) \o " vs " \o ToString(m)
          \o ") - may indicate overconfidence"

\* analyzeITPScores of the JSON handler: a string when a triple is missing,
\* else { gaps, strengths, developmentAreas, avgScores }; avgScores holds
\* twice the average, the sum of the two scores
analyzeITPScoresJson(selfScores, managerScores) ==
  IF ~Truthy(selfScores) \/ ~Truthy(managerScores)
  THEN Str("ITP assessment data incomplete")
  ELSE LET sum == [trait \in {"humble", "hungry", "smart"} |->
                     Get(selfScores, trait).n + Get(managerScores, trait).n]
           gap(trait) == Get(managerScores, trait).n - Get(selfScores, trait).n
           gapOne(trait) ==
             IF gap(trait) >= 2 \/ gap(trait) <= 0 - 2
             THEN <<gapTextJson(trait, selfScores, managerScores)>> ELSE <<>>
           strongOne(trait) ==
             IF sum[trait] >= 16
             THEN <<"Strong " \o trait \o " (avg " \o avgToFixed(sum[trait]) \o ")">>
             ELSE <<>>
           weakOne(trait) ==
             IF sum[trait] <= 12
             THEN <<"Development opportunity in " \o trait \o " (avg "
                    \o avgToFixed(sum[trait]) \o ")">>
             ELSE <<>>
       IN Obj([gaps |-> gapOne("humble") \o gapOne("hungry") \o gapOne("smart"),
               strengths |->
                 strongOne("humble") \o strongOne("hungry") \o strongOne("smart"),
               developmentAreas |->
                 weakOne("humble") \o weakOne("hungry") \o weakOne("smart"),
               avgScores |-> sum])

strengthKeywords ==
  <<"strategic", "technical", "innovative", "collaborative", "leadership",
    "problem-solving", "communication">>

\* x.includes(p) || y.includes(q) of two fields of the body: "throws" when
\* the operand that is reached is no string
eitherIncludes(x, p, y, q) ==
  IF x.t # "string" THEN "throws"
  ELSE IF includes(x.s, p) THEN "yes"
  ELSE IF y.t # "string" THEN "throws"
  ELSE IF includes(y.s, q) THEN "yes" ELSE "no"

\* the callback of strengthKeywords.filter for one keyword
keywordFound(d, keyword) ==
  LET f == Get(d, "feedback360Text")
      s == Get(d, "selfReview")
      m == Get(d, "managerComments")
  IN IF f.t # "string" THEN "throws"
     ELSE IF includes(toLowerCase(f.s), keyword) THEN "yes"
     ELSE IF s.t # "string" THEN "throws"
     ELSE IF includes(toLowerCase(s.s), keyword) THEN "yes"
     ELSE IF m.t # "string" THEN "throws"
     ELSE IF includes(toLowerCase(m.s), keyword) THEN "yes" ELSE "no"

RECURSIVE mapStrong(_)
\* foundStrengths.map(s => `Strong ${s} capabilities`)
mapStrong(a) ==
  IF Len(a) = 0 THEN <<>>
  ELSE <<"Strong " \o a[1] \o " capabilities">> \o mapStrong(Tail(a))

generateStrengthsSection(d, itpAnalysis) ==
  IF itpAnalysis.t # "object"
  THEN TypeError  \* itpAnalysis.strengths is undefined: reading .length throws
  ELSE LET verdict == [k \in DOMAIN strengthKeywords |->
                         keywordFound(d, strengthKeywords[k])]
           foundStrengths ==
             SelectSeq(strengthKeywords,
                       LAMBDA w : keywordFound(d, w) = "yes")
       IN IF \E k \in DOMAIN verdict : verdict[k] = "throws"
          THEN TypeError
          ELSE Returned(
            "Based on comprehensive feedback analysis, key strengths include:\n\n* "
            \o join(mapStrong(sliceTo(foundStrengths, 3)), "\n* ")
            \o "\n* " \o join(itpAnalysis.o.strengths, "\n* ")
            \o "\n* Demonstrates consistent value delivery across multiple domains"
            \o "\n* Effective collaboration and cross-functional understanding"
            \o "\n\nThe feedback consistently highlights the ability to balance strategic thinking with practical execution, creating meaningful business impact.")

generateDevelopmentSection(d, itpAnalysis) ==
  LET f == Get(d, "feedback360Text")
      m == Get(d, "managerComments")
      communication == eitherIncludes(f, "communication", m, "communication")
      followThrough == eitherIncludes(f, "follow-through", m, "execution")
      developmentAreas ==
        (IF communication = "yes"
         THEN <<"Enhanced communication consistency and responsiveness">>
         ELSE <<>>)
        \o (IF followThrough = "yes"
            THEN <<"Improved project follow-through and execution discipline">>
            ELSE <<>>)
        \o itpAnalysis.o.developmentAreas
  IN IF communication = "throws" \/ followThrough = "throws"
        \/ itpAnalysis.t # "object"
     THEN TypeError
     ELSE Returned(
       "Primary development priorities focus on operational excellence and leadership transition:\n\n* "
       \o join(sliceTo(developmentAreas, 4), "\n* ")
       \o "\n* Time management and workload prioritization"
       \o "\n* Building scalable team processes and delegation capabilities\n\n"
       \o (IF Len(itpAnalysis.o.gaps) > 0
           THEN "\nITP Assessment insights:\n* " \o join(itpAnalysis.o.gaps, "\n* ")
           ELSE "")
       \o "\n\nThese development areas represent opportunities to amplify existing strengths through better systems and processes.")

generateGoalsSection(d, itpAnalysis) ==
  Returned(
    "Based on feedback themes and development priorities:\n\n"
    \o "1. **Communication Excellence**: Establish consistent response protocols and proactive status updates for all projects and stakeholder interactions.\n\n"
    \o "2. **Execution Systems**: Implement structured project management approaches ensuring reliable follow-through from concept to completion.\n\n"
    \o "3. **Leadership Development**: Transition focus from individual contribution to team amplification through delegation and process development.\n\n"
    \o "4. **Strategic Impact**: Leverage domain expertise to drive broader organizational transformation while maintaining focus on highest-priority initiatives.\n\n"
    \o "5. **Self-Management**: Develop sustainable work practices including boundary setting and stress management for long-term effectiveness.\n\n"
    \o "Success metrics should include stakeholder feedback on communication consistency, project completion rates, and team development progress.")

generateOverallSection(d, itpAnalysis) ==
  IF itpAnalysis.t # "object" THEN TypeError
  ELSE Returned(
    "This individual demonstrates exceptional potential with a strong foundation of technical expertise and strategic thinking capabilities. The feedback reveals someone who consistently adds value through innovative problem-solving and cross-functional collaboration.\n\n"
    \o "The development areas identified are primarily about maximizing existing strengths through better operational discipline and leadership systems. With focused attention on communication consistency and execution follow-through, this person is well-positioned to excel in expanded responsibilities.\n\n"
    \o "The combination of " \o join(itpAnalysis.o.strengths, ", ")
    \o " positions them strongly for continued growth and increased organizational impact. The path forward involves building sustainable systems that allow their capabilities to scale effectively.")

\* synthesizeReview of the JSON handler: the prompt it builds is never sent;
\* the four generators run in the order of the object literal
synthesizeReviewJson(d, itpAnalysis) ==
  LET strengths == generateStrengthsSection(d, itpAnalysis)
      developmentFeedback == generateDevelopmentSection(d, itpAnalysis)
      goalsNextYear == generateGoalsSection(d, itpAnalysis)
      overallAssessment == generateOverallSection(d, itpAnalysis)
  IN IF strengths.throws THEN TypeError
     ELSE IF developmentFeedback.throws THEN TypeError
     ELSE IF goalsNextYear.throws THEN TypeError
     ELSE IF overallAssessment.throws THEN TypeError
     ELSE Returned([strengths |-> Str(strengths.v),
                    developmentFeedback |-> Str(developmentFeedback.v),
                    goalsNextYear |-> Str(goalsNextYear.v),
                    overallAssessment |-> Str(overallAssessment.v)])

\* the catch of the JSON handler: { error }, status 500
ErrorResponseJson == Respond(500, [error |-> Str("Failed to synthesize review")])

\* the response of the JSON handler to a body: request.json() rejects on a
\* body that is no JSON, and reading a property of null throws
respondJson(body) ==
  IF body.t \in {"unparsable", "null"} THEN ErrorResponseJson
  ELSE LET itpAnalysis == analyzeITPScoresJson(Get(body, "itpSelfScores"),
                                               Get(body, "itpManagerScores"))
           synthesizedReview == synthesizeReviewJson(body, itpAnalysis)
       IN IF synthesizedReview.throws THEN ErrorResponseJson
          ELSE Respond(200, synthesizedReview.v)

\* a field that is absent from the body has the value Undefined
JsonTexts ==
  [feedback360Text :
     {Undefined, Str(""),
      Str("Strategic, technical, innovative and collaborative leadership; problem-solving, communication and follow-through.")},
   selfReview : {Undefined, Null, Str("I led the technical work.")},
   managerComments :
     {Undefined, Str(""), Str("Good communication, weak execution.")}]

JsonBodies ==
  {Unparsable, Null}
  \cup {Obj([itpSelfScores |-> s, itpManagerScores |-> m] @@ texts) :
          s \in {Undefined, Null, ITPScores(Num(8), Num(6), Num(5))},
          m \in {Undefined, Null, ITPScores(Num(9), Num(9), Num(3))},
          texts \in JsonTexts}

JsonRequests ==
  [contentType : {Str("application/json")},
   formOk : {FALSE},
   itpEmployeeScreenshots : {0},
   itpManagerScreenshots : {0},
   feedback360 : {FALSE},
   selfReviewScreenshots : {0},
   managerComments : {Null},
   json : JsonBodies]

\* a request reaches POST of the JSON handler, which awaits nothing but the
\* body
POSTJson(r) ==
  /\ handler = "json"
  /\ pc = "idle"
  /\ req' = r
  /\ resp' = respondJson(r.json)
  /\ pc' = "done"
  /\ data' = NoData
  /\ calls' = <<>>
  /\ lastReply' = NoReply
  /\ failed' = {}
  /\ UNCHANGED <<apiKey, handler, fn, ret>>

(***************************************************************************)
(* The values of the variables that a specification leaves alone.          *)
(***************************************************************************)
\* no reply received, never set aside by the event loop
NoHistory == [replies |-> <<>>, preempted |-> FALSE]

\* an invocation of POST that no request has reached
NoContext ==
  [req |-> NoRequest, pc |-> "idle", data |-> NoData, calls |-> <<>>,
   lastReply |-> NoReply, failed |-> {}, resp |-> NoResponse, own |-> NoHistory]

\* no statement has run on the table
NoStatement == [op |-> "none", violated |-> {}]

(***************************************************************************)
(* The page (src/app/page.tsx, and its variants src/unnamed/part_007 and   *)
(* src/unnamed/part_006): the state of the HomePage component, the timers  *)
(* its handlers have set, and the invocations of handleGenerateReview that *)
(* wait for a timer or for the server.  A handler is a function of the     *)
(* render in which it was created: it reads the inputs and the output of   *)
(* that render, while a functional update (prev => ...) reads the state of *)
(* the moment it is applied.  Every state change is rendered before the    *)
(* next event, so the handler of an event is the one of the present state. *)
(* The reply of the server is an input of the page.                        *)
(***************************************************************************)
Components == {"page.tsx", "part_007", "part_006"}

\* a File the user picked
File(name) == [t |-> "object", name |-> name]

FileNames == {"a", "b"}

\* useState<ReviewInputs>({...})
InitialInputs ==
  [itpEmployeeScreenshots |-> <<>>, itpManagerScreenshots |-> <<>>,
   feedback360 |-> Null, selfReviewScreenshots |-> <<>>,
   managerComments |-> ""]

\* useState<ExtractedData>({...})
InitialExtractedData ==
  [itpEmployeeScores |-> Null, itpManagerScores |-> Null,
   feedback360Text |-> Null, selfReviewText |-> Null,
   extractionStatus |->
     [itpEmployee |-> "pending", itpManager |-> "pending",
      feedback360 |-> "pending", selfReview |-> "pending"]]

ImageCategories ==
  {"itpEmployeeScreenshots", "itpManagerScreenshots", "selfReviewScreenshots"}

Categories == ImageCategories \cup {"feedback360"}

\* what the functions of the present render close over
render == [inputs |-> inputs, output |-> output]

\* getStepStatus(stepId) of a render
getStepStatus(r, stepId) ==
  CASE stepId = 1 ->
         IF Len(r.inputs.itpEmployeeScreenshots) > 0
            /\ Len(r.inputs.itpManagerScreenshots) > 0
         THEN "complete"
         ELSE IF Len(r.inputs.itpEmployeeScreenshots) > 0
                 \/ Len(r.inputs.itpManagerScreenshots) > 0
              THEN "partial"
              ELSE "incomplete"
    [] stepId = 2 ->
         IF Truthy(r.inputs.feedback360) THEN "complete" ELSE "skipped"
    [] stepId = 3 ->
         IF Len(r.inputs.selfReviewScreenshots) > 0
         THEN "complete" ELSE "incomplete"
    [] stepId = 4 ->
         IF Len(trim(r.inputs.managerComments)) > 0
         THEN "complete" ELSE "incomplete"
    [] stepId = 5 -> IF Truthy(r.output) THEN "complete" ELSE "incomplete"
    [] OTHER -> "incomplete"

\* updateCurrentStep() of a render: the step it passes to setCurrentStep
updateCurrentStep(r) ==
  LET open == {i \in 1..5 : getStepStatus(r, i) = "incomplete"}
  IN IF open = {} THEN 5 ELSE CHOOSE i \in open : \A j \in open : i <= j

\* setTimeout(updateCurrentStep, 100) in a handler of the present render;
\* part_006 sets no timer
setTimeoutUpdateCurrentStep ==
  IF component = "part_006" THEN timers ELSE Append(timers, render)

\* files[0]
firstFile(files) == IF Len(files) > 0 THEN files[1] ELSE Undefined

\* a removal that cuts the list at the index, as list.slice(0, index) would
sliceToIndex(list, index) == SubSeq(list, 1, index)

\* list.filter((_, i) => i !== index), index from 0
filterIndex(list, index) ==
  SubSeq(list, 1, index) \o SubSeq(list, index + 2, Len(list))

\* handleFileUpload(files, type): files is null or a FileList
handleFileUpload(files, type) ==
  /\ component \in Components
  /\ IF ~Truthy(files)
     THEN UNCHANGED <<inputs, timers, events>>
     ELSE /\ events < MaxEvents
          /\ events' = events + 1
          /\ inputs' =
               IF type = "feedback360"
               THEN [inputs EXCEPT ![type] = firstFile(files.a)]
               ELSE [inputs EXCEPT ![type] = @ \o files.a]
          /\ timers' = setTimeoutUpdateCurrentStep
  /\ UNCHANGED <<component, extractedData, output, isGenerating, error,
                 currentStep, generating, tests, clicks>>

\* the indices of the remove buttons of a category: one per listed file; the
\* button of the feedback document passes no index
RemoveButtons(type) ==
  IF type = "feedback360"
  THEN IF Truthy(inputs.feedback360) THEN {0} ELSE {}
  ELSE 0..(Len(inputs[type]) - 1)

\* removeFile(type, index)
removeFile(type, index) ==
  /\ component \in Components
  /\ events < MaxEvents
  /\ events' = events + 1
  /\ IF type = "feedback360"
     THEN inputs' = [inputs EXCEPT ![type] = Null]
     ELSE inputs' = [inputs EXCEPT ![type] = filterIndex(@, index)]
  /\ timers' = setTimeoutUpdateCurrentStep
  /\ UNCHANGED <<component, extractedData, output, isGenerating, error,
                 currentStep, generating, tests, clicks>>

\* onChange of the manager comments textarea
changeManagerComments(value) ==
  /\ component \in Components
  /\ events < MaxEvents
  /\ events' = events + 1
  /\ inputs' = [inputs EXCEPT !.managerComments = value]
  /\ timers' = setTimeoutUpdateCurrentStep
  /\ UNCHANGED <<component, extractedData, output, isGenerating, error,
                 currentStep, generating, tests, clicks>>

\* a timer set by setTimeout(updateCurrentStep, 100) runs: timers of one
\* delay run in the order in which they were set
runUpdateCurrentStep ==
  /\ timers # <<>>
  /\ currentStep' = updateCurrentStep(Head(timers))
  /\ timers' = Tail(timers)
  /\ UNCHANGED <<component, inputs, extractedData, output, isGenerating,
                 error, generating, tests, clicks, events>>

\* a Generate button that is never disabled
GenerateAlwaysEnabled == TRUE

\* disabled={...} of the Generate button, negated
GenerateEnabled ==
  CASE component = "page.tsx" ->
         ~isGenerating /\ getStepStatus(render, 4) = "complete"
    [] OTHER -> ~isGenerating

\* the extractionStatus that extractDataFromUploads sets from the inputs of
\* its render: busy is 'processing' before the wait and 'complete' after it
extractionStatus(r, busy) ==
  [itpEmployee |->
     IF Len(r.inputs.itpEmployeeScreenshots) > 0 THEN busy ELSE "pending",
   itpManager |->
     IF Len(r.inputs.itpManagerScreenshots) > 0 THEN busy ELSE "pending",
   feedback360 |-> IF Truthy(r.inputs.feedback360) THEN busy ELSE "skipped",
   selfReview |->
     IF Len(r.inputs.selfReviewScreenshots) > 0 THEN busy ELSE "pending"]

\* the mock extracted data of extractDataFromUploads, set after the wait
extractDataFromUploads(r) ==
  [itpEmployeeScores |->
     IF Len(r.inputs.itpEmployeeScreenshots) > 0
     THEN Obj([humble |-> Num(8), hungry |-> Num(7), smart |-> Num(9)])
     ELSE Null,
   itpManagerScores |->
     IF Len(r.inputs.itpManagerScreenshots) > 0
     THEN Obj([humble |-> Num(7), hungry |-> Num(8), smart |-> Num(8)])
     ELSE Null,
   feedback360Text |->
     IF Truthy(r.inputs.feedback360)
     THEN Str("Extracted 360 feedback content would appear here...")
     ELSE Null,
   selfReviewText |->
     IF Len(r.inputs.selfReviewScreenshots) > 0
     THEN Str("Extracted self-review text would appear here...")
     ELSE Null,
   extractionStatus |-> extractionStatus(r, "complete")]

\* await response.json() of a successful reply to a request
result(request) == [t |-> "object", from |-> "server", request |-> request]

\* the review that the catch block of part_006 shows
mockOutput == [t |-> "object", from |-> "page", request |-> 0]

\* a click on Generate: handleGenerateReview up to its first await; page.tsx
\* first waits in extractDataFromUploads, the variants post at once
clickGenerate ==
  /\ component \in Components
  /\ GenerateEnabled
  /\ events < MaxEvents
  /\ events' = events + 1
  /\ clicks' = clicks + 1
  /\ isGenerating' = TRUE
  /\ error' = IF component = "part_007" THEN Null ELSE error
  /\ extractedData' =
       IF component = "page.tsx"
       THEN [extractedData EXCEPT
               !.extractionStatus = extractionStatus(render, "processing")]
       ELSE extractedData
  /\ generating' = generating \cup
       {[pc |-> IF component = "page.tsx" THEN "extracting" ELSE "fetching",
         render |-> render, request |-> clicks + 1]}
  /\ UNCHANGED <<component, inputs, output, currentStep, timers, tests>>

\* page.tsx: the 2000 ms of extractDataFromUploads are over; the invocation
\* sets the mock data and posts the form
extracted(g) ==
  /\ g \in generating
  /\ g.pc = "extracting"
  /\ extractedData' = extractDataFromUploads(g.render)
  /\ generating' = (generating \ {g}) \cup {[g EXCEPT !.pc = "fetching"]}
  /\ UNCHANGED <<component, inputs, output, isGenerating, error,
                 currentStep, timers, tests, clicks, events>>

\* the ways a request ends: a successful reply, a reply that is not ok, a
\* rejected fetch or an unreadable body
Outcomes == {"ok", "notOk", "throws"}

\* the message of the Error that reaches the catch block of part_007
errorMessage(reply) ==
  IF reply = "notOk"
  THEN "HTTP 500: Failed to generate review"
  ELSE "Failed to fetch"

\* handleGenerateReview with setIsGenerating(false) as the last statement of
\* its try block
repliedResetInTry(g, reply) ==
  /\ g \in generating
  /\ g.pc = "fetching"
  /\ generating' = generating \ {g}
  /\ IF reply = "ok"
     THEN /\ output' = result(g.request)
          /\ currentStep' =
               IF component = "part_006"
               THEN currentStep
               ELSE updateCurrentStep(g.render)
          /\ error' = error
     ELSE /\ output' = IF component = "part_006" THEN mockOutput ELSE output
          /\ error' =
               IF component = "part_007"
               THEN Str("DETAILED ERROR: " \o errorMessage(reply))
               ELSE error
          /\ currentStep' = currentStep
  /\ isGenerating' = (reply # "ok")
  /\ UNCHANGED <<component, inputs, extractedData, timers, tests, clicks,
                 events>>

\* the request of an invocation ends: the rest of handleGenerateReview
replied(g, reply) ==
  /\ g \in generating
  /\ g.pc = "fetching"
  /\ generating' = generating \ {g}
  /\ IF reply = "ok"
     THEN /\ output' = result(g.request)
          /\ currentStep' =
               IF component = "part_006"
               THEN currentStep
               ELSE updateCurrentStep(g.render)
          /\ error' = error
     ELSE /\ output' = IF component = "part_006" THEN mockOutput ELSE output
          /\ error' =
               IF component = "part_007"
               THEN Str("DETAILED ERROR: " \o errorMessage(reply))
               ELSE error
          /\ currentStep' = currentStep
  /\ isGenerating' = FALSE
  /\ UNCHANGED <<component, inputs, extractedData, timers, tests, clicks,
                 events>>

\* part_007: a click on Test API posts {test: true} to /api/synthesize
clickTestAPI ==
  /\ component = "part_007"
  /\ events < MaxEvents
  /\ events' = events + 1
  /\ error' = Str("")
  /\ tests' = tests + 1
  /\ UNCHANGED <<component, inputs, extractedData, output, isGenerating,
                 currentStep, timers, generating, clicks>>

\* part_007: a test request ends, and the page shows an alert
testAPIReplied ==
  /\ tests > 0
  /\ tests' = tests - 1
  /\ UNCHANGED <<component, inputs, extractedData, output, isGenerating,
                 error, currentStep, timers, generating, clicks, events>>

\* the FileLists of an upload: null, or the files the user picked
FileLists ==
  {Null, Arr(<<>>), Arr(<<File("a")>>), Arr(<<File("a"), File("b")>>)}

\* multiple={false} of the feedback document: its FileList has one file at
\* most
FileListsOf(type) ==
  IF type = "feedback360"
  THEN {files \in FileLists : Truthy(files) => Len(files.a) <= 1}
  ELSE FileLists

\* texts of the manager comments
CommentTexts == {"", " ", "ok"}

\* the page before any component is mounted
NoPage ==
  /\ component = "none"
  /\ inputs = InitialInputs
  /\ extractedData = InitialExtractedData
  /\ output = Null
  /\ isGenerating = FALSE
  /\ error = Null
  /\ currentStep = 1
  /\ timers = <<>>
  /\ generating = {}
  /\ tests = 0
  /\ clicks = 0
  /\ events = 0

(***************************************************************************)
(* The helpers as functions of their arguments: one call per behaviour,    *)
(* fn is the call and ret what it returns.                                 *)
(***************************************************************************)
NoCall == [name |-> "none"]

\* the score triples of the calls: every triple of sample scores, and the
\* pair of the documented example
ScoreTriples ==
  {ITPScores(Num(h), Num(u), Num(s)) :
     h \in 1..MaxSampleScore, u \in 1..MaxSampleScore, s \in 1..MaxSampleScore}
  \cup {ITPScores(Num(5), Num(5), Num(5)), ITPScores(Num(8), Num(5), Num(3))}

ScoreArguments == ScoreTriples \cup {Null}

\* data of the declared type ProcessedData: scores or null, texts that are
\* strings
ProcessedData ==
  [itpEmployeeScores : {Null, ITPScores(Num(8), Num(7), Num(9))},
   itpManagerScores : {Null, ITPScores(Num(7), Num(8), Num(8))},
   feedback360Text : {Null, Str(extractPDFText(FeedbackFileName))},
   selfReviewText : {Str(""), Str("I led the migration."),
                     Str("[Error processing self-review screenshots]")},
   managerComments : {Str(""), Str("  "), Str("Reliable and kind.")}]

\* texts of four sections, each under a line that names it
Labels ==
  [plain |-> <<"Strengths", "Development", "Goals", "Overall">>,
   named |-> <<"Greatest Strengths", "Development Feedback",
               "Goals for Next Year", "Overall Assessment">>,
   numbered |-> <<"1. Greatest Strengths", "2. Development Feedback",
                  "3. Goals for Next Year", "4. Overall Assessment">>,
   markdown |-> <<"## Greatest Strengths", "## Development Feedback",
                  "## Goals for Next Year", "## Overall Assessment">>,
   bold |-> <<"**Greatest Strengths**", "**Development Feedback**",
              "**Goals for Next Year**", "**Overall Assessment**">>]

Bodies ==
  {<<"kind", "slow", "grow", "fine">>,
   <<"Kind to all.", "Slow to reply.", "Grow the team.", "Fine year.">>}

labelledText(labels, colon, bodies) ==
  labels[1] \o colon \o "\n" \o bodies[1] \o "\n"
  \o labels[2] \o colon \o "\n" \o bodies[2] \o "\n"
  \o labels[3] \o colon \o "\n" \o bodies[3] \o "\n"
  \o labels[4] \o colon \o "\n" \o bodies[4]

LabelledTexts ==
  {[text |-> labelledText(Labels[style], colon, bodies), style |-> style,
    bodies |-> bodies, order |-> <<1, 2, 3, 4>>, colon |-> colon] :
     style \in DOMAIN Labels, colon \in {"", ":"}, bodies \in Bodies}

\* texts without any of the words the splitter looks for
UnlabelledTexts ==
  {[text |-> t, style |-> "none", bodies |-> <<>>, order |-> <<1, 2, 3, 4>>,
    colon |-> ""] :
     t \in {"", "Kind. Slow. Grow. Fine.", "kind\nslow\ngrow\nfine",
            "1. kind\n## slow\n**grow**", "Summary: a fine year."}}

\* bodies that name another section, and a body of two lines with a colon
SectionBodies ==
  {<<"kind", "slow", "grow", "fine">>,
   <<"kind", "Build on strengths.", "grow", "fine">>,
   <<"kind\nNote: calm", "slow", "grow", "fine">>}

\* the i-th section of a numbered text whose sections come in the given order
numberedSection(i, order, colon, bodies) ==
  ToString(i) \o ". " \o Labels.named[order[i]] \o colon \o "\n"
  \o bodies[order[i]]

\* numbered texts of the four sections in every order
OrderedTexts ==
  {[text |-> numberedSection(1, order, colon, bodies) \o "\n"
             \o numberedSection(2, order, colon, bodies) \o "\n"
             \o numberedSection(3, order, colon, bodies) \o "\n"
             \o numberedSection(4, order, colon, bodies),
    style |-> "ordered", bodies |-> bodies, order |-> order, colon |-> colon] :
     order \in Permutations(1..4), colon \in {"", ":"}, bodies \in SectionBodies}

ReviewTexts == LabelledTexts \cup UnlabelledTexts \cup OrderedTexts

CallAnalyzeITPScores(employeeScores, managerScores) ==
  /\ fn = NoCall
  /\ fn' = [name |-> "analyzeITPScores", source |-> "part_002",
            employeeScores |-> employeeScores, managerScores |-> managerScores]
  /\ ret' = Str(analyzeITPScores(employeeScores, managerScores))
  /\ UNCHANGED handlerVars

CallAnalyzeITPScoresRoute(employeeScores, managerScores) ==
  /\ fn = NoCall
  /\ fn' = [name |-> "analyzeITPScores", source |-> "route.ts",
            employeeScores |-> employeeScores, managerScores |-> managerScores]
  /\ ret' = Str(analyzeITPScoresRoute(employeeScores, managerScores))
  /\ UNCHANGED handlerVars

\* the call of synthesizeReview's catch and of its status check
CallGenerateTransparentFallbackReview(d) ==
  /\ fn = NoCall
  /\ fn' = [name |-> "generateTransparentFallbackReview", data |-> d,
            dataUsed |-> dataUsedOf(d)]
  /\ ret' = IF extractedDataThrows(d) THEN JsonThrows
            ELSE generateTransparentFallbackReview(
                   d, analyzeITPScores(d.itpEmployeeScores, d.itpManagerScores),
                   dataUsedOf(d))
  /\ UNCHANGED handlerVars

\* the call of POST of part_004
CallGenerateFallback(r) ==
  /\ fn = NoCall
  /\ fn' = [name |-> "generateFallback", managerComments |-> managerCommentsOf(r),
            extractedData |-> mockExtractedData(r), dataUsed |-> dataUsedMock(r)]
  /\ ret' = generateFallback(dataUsedMock(r), mockExtractedData(r),
                             managerCommentsOf(r))
  /\ UNCHANGED handlerVars

\* the call of the catch of synthesizeReview of route.ts
CallGenerateFallbackReview(d) ==
  /\ fn = NoCall
  /\ fn' = [name |-> "generateFallbackReview", data |-> d]
  /\ ret' = generateFallbackReview(
              d, analyzeITPScoresRoute(d.itpEmployeeScores, d.itpManagerScores))
  /\ UNCHANGED handlerVars

CallParseSynthesizedReview(sample) ==
  /\ fn = NoCall
  /\ fn' = [name |-> "parseSynthesizedReview", source |-> "part_002"] @@ sample
  /\ ret' = parseSynthesizedReview(sample.text)
  /\ UNCHANGED handlerVars

CallParseSynthesizedReviewRoute(sample) ==
  /\ fn = NoCall
  /\ fn' = [name |-> "parseSynthesizedReview", source |-> "route.ts"] @@ sample
  /\ ret' = parseSynthesizedReviewRoute(sample.text)
  /\ UNCHANGED handlerVars
\* the texts of a reply to the synthesis call of part_004: no JSON, of every
\* length up to MaxTextLen, with blanks around, JSON, and JSON in a fence
RawTexts ==
  {substring("abcdefghijklmnopqrstuvwxyz", 0, n) : n \in 0..MaxTextLen}
  \cup {" ab ", "'''json\nabc", ReviewJson, ReviewJsonFenced}

\* a form submission without any field
EmptyFormRequest ==
  [contentType |-> Str("multipart/form-data; boundary=x"), formOk |-> TRUE,
   itpEmployeeScreenshots |-> 0, itpManagerScreenshots |-> 0,
   feedback360 |-> FALSE, selfReviewScreenshots |-> 0,
   managerComments |-> Null]

\* the try/catch of POST of part_004 around JSON.parse and the response
\* built from its result
CallReviewContent(text) ==
  /\ fn = NoCall
  /\ fn' = [name |-> "reviewContent", text |-> text]
  /\ ret' = mockReviewResponse(EmptyFormRequest,
                               reviewContentMock(Str(text)).v).body
  /\ UNCHANGED handlerVars
\* const maxSize = 10 * 1024 * 1024 of validatePDFFile: 10MB in bytes
maxSize == 10 * 1024 * 1024

\* validatePDFFile(file) of src/unnamed/part_001
validatePDFFile(file) ==
  IF file.type # "application/pdf"
  THEN [valid |-> FALSE, error |-> Str("File must be a PDF")]
  ELSE IF file.size > maxSize
       THEN [valid |-> FALSE, error |-> Str("File size must be less than 10MB")]
       ELSE [valid |-> TRUE]

\* files around the size limit, of a PDF and of other types
SampleFiles ==
  [type : {"application/pdf", "image/png", ""},
   size : {0, maxSize - 1, maxSize, maxSize + 1}]

CallValidatePDFFile(file) ==
  /\ fn = NoCall
  /\ fn' = [name |-> "validatePDFFile", file |-> file]
  /\ ret' = validatePDFFile(file)
  /\ UNCHANGED handlerVars

InitFn ==
  /\ apiKey = TRUE
  /\ handler = "transparent"
  /\ req = NoRequest
  /\ pc = "idle"
  /\ data = NoData
  /\ calls = <<>>
  /\ lastReply = NoReply
  /\ failed = {}
  /\ resp = NoResponse
  /\ fn = NoCall
  /\ ret = NoCall
  /\ own = NoHistory
  /\ parked = NoContext
  /\ reviews = {}
  /\ sql = NoStatement
  /\ NoPage

NextFn ==
  \/ \E e \in ScoreArguments, m \in ScoreArguments : CallAnalyzeITPScores(e, m)
       /\ UNCHANGED <<concurrencyVars, storageVars, pageVars>>
  \/ \E e \in ScoreArguments, m \in ScoreArguments : CallAnalyzeITPScoresRoute(e, m)
       /\ UNCHANGED <<concurrencyVars, storageVars, pageVars>>
  \/ \E d \in ProcessedData : CallGenerateTransparentFallbackReview(d)
       /\ UNCHANGED <<concurrencyVars, storageVars, pageVars>>
  \/ \E r \in FormRequests : CallGenerateFallback(r)
       /\ UNCHANGED <<concurrencyVars, storageVars, pageVars>>
  \/ \E d \in ProcessedData : CallGenerateFallbackReview(d)
       /\ UNCHANGED <<concurrencyVars, storageVars, pageVars>>
  \/ \E sample \in ReviewTexts : CallParseSynthesizedReview(sample)
       /\ UNCHANGED <<concurrencyVars, storageVars, pageVars>>
  \/ \E sample \in ReviewTexts : CallParseSynthesizedReviewRoute(sample)
       /\ UNCHANGED <<concurrencyVars, storageVars, pageVars>>
  \/ \E text \in RawTexts : CallReviewContent(text)
       /\ UNCHANGED <<concurrencyVars, storageVars, pageVars>>
  \/ \E file \in SampleFiles : CallValidatePDFFile(file)
       /\ UNCHANGED <<concurrencyVars, storageVars, pageVars>>

SpecFn == InitFn /\ [][NextFn]_vars

(***************************************************************************)
(* The handlers' specification: one behaviour is the life of one request,  *)
(* under one of the three handlers, with or without an API key.            *)
(***************************************************************************)
Init ==
  /\ apiKey \in BOOLEAN
  /\ handler \in Handlers
  /\ req = NoRequest
  /\ pc = "idle"
  /\ data = NoData
  /\ calls = <<>>
  /\ lastReply = NoReply
  /\ failed = {}
  /\ resp = NoResponse
  /\ fn = NoCall
  /\ ret = NoCall
  /\ own = NoHistory
  /\ parked = NoContext
  /\ reviews = {}
  /\ sql = NoStatement
  /\ NoPage

Next ==
  \/ \E r \in Requests : POSTMock(r)
       /\ UNCHANGED <<concurrencyVars, storageVars, pageVars>>
  \/ \E reply \in MockSynthesisReplies : MockSynthesisReturns(reply)
       /\ UNCHANGED <<concurrencyVars, storageVars, pageVars>>
  \/ \E r \in Requests : POSTTransparent(r)
       /\ UNCHANGED <<concurrencyVars, storageVars, pageVars>>
  \/ \E reply \in Replies(ScoreReplies) : ITPEmployeeReturns(reply)
       /\ UNCHANGED <<concurrencyVars, storageVars, pageVars>>
  \/ \E reply \in Replies(ScoreReplies) : ITPManagerReturns(reply)
       /\ UNCHANGED <<concurrencyVars, storageVars, pageVars>>
  \/ \E reply \in Replies(SelfReviewReplies) : SelfReviewReturns(reply)
       /\ UNCHANGED <<concurrencyVars, storageVars, pageVars>>
  \/ \E reply \in Replies(SynthesisReplies) : SynthesisReturns(reply)
       /\ UNCHANGED <<concurrencyVars, storageVars, pageVars>>
  \/ \E r \in Requests : POSTRoute(r)
       /\ UNCHANGED <<concurrencyVars, storageVars, pageVars>>
  \/ \E reply \in Replies(ScoreReplies) : RouteITPEmployeeReturns(reply)
       /\ UNCHANGED <<concurrencyVars, storageVars, pageVars>>
  \/ \E reply \in Replies(ScoreReplies) : RouteITPManagerReturns(reply)
       /\ UNCHANGED <<concurrencyVars, storageVars, pageVars>>
  \/ \E reply \in Replies(SelfReviewReplies) : RouteSelfReviewReturns(reply)
       /\ UNCHANGED <<concurrencyVars, storageVars, pageVars>>
  \/ \E reply \in Replies(SynthesisReplies) : RouteSynthesisReturns(reply)
       /\ UNCHANGED <<concurrencyVars, storageVars, pageVars>>
  \/ \E r \in JsonRequests : POSTJson(r)
       /\ UNCHANGED <<concurrencyVars, storageVars, pageVars>>

Spec == Init /\ [][Next]_vars

(***************************************************************************)
(* Two requests in one process.  The event loop runs one invocation of     *)
(* POST at a time and can turn to the other one whenever the running one   *)
(* waits or has answered; parked holds the locals of the invocation that   *)
(* is not running, own the replies the running one has received.           *)
(***************************************************************************)
\* the locals of the running invocation of POST
context ==
  [req |-> req, pc |-> pc, data |-> data, calls |-> calls,
   lastReply |-> lastReply, failed |-> failed, resp |-> resp, own |-> own]

\* what an invocation would resume with if data were a variable of the
\* module
resumedWithSharedData(current, other) == [other EXCEPT !.data = current.data]

\* what an invocation resumes with when the event loop turns to it: its
\* own locals, the handlers keep nothing at module level
resumed(current, other) == other

\* the event loop turns from the running invocation to the other one
Switch ==
  LET current == [context EXCEPT
                    !.own.preempted = @ \/ pc \notin {"idle", "done"}]
      next == resumed(current, parked)
  IN /\ parked' = current
     /\ req' = next.req
     /\ pc' = next.pc
     /\ data' = next.data
     /\ calls' = next.calls
     /\ lastReply' = next.lastReply
     /\ failed' = next.failed
     /\ resp' = next.resp
     /\ own' = next.own
     /\ UNCHANGED <<apiKey, handler, pureVars, storageVars, pageVars>>

\* the running invocation receives the reply to its call
Hears(call, reply) ==
  /\ own' = [own EXCEPT !.replies = Append(@, Received(call, reply))]
  /\ UNCHANGED <<parked, storageVars, pageVars>>

ConcurrentRequests ==
  {[contentType |-> Str("multipart/form-data; boundary=x"), formOk |-> TRUE,
    itpEmployeeScreenshots |-> e, itpManagerScreenshots |-> e,
    feedback360 |-> (s > 0), selfReviewScreenshots |-> s,
    managerComments |-> IF e > 0 THEN Str("Reliable and kind.") ELSE Null] :
     e \in FileCounts, s \in FileCounts}

ConcurrentScoreReplies == {Rejected, HttpOk(Message(Str(ScoresJson555)))}

ConcurrentSelfReviewReplies ==
  {HttpOk(Message(Str("I led the migration."))), HttpOk(Message(Num(5)))}

ConcurrentSynthesisReplies ==
  {Rejected, HttpOk(Message(Str(NumberedReview)))}

ConcurrentMockReplies == {HttpError(500), HttpOk(Message(Str(ReviewJson)))}

InitConcurrent ==
  /\ apiKey \in BOOLEAN
  /\ handler \in {"transparent", "mock"}
  /\ req = NoRequest
  /\ pc = "idle"
  /\ data = NoData
  /\ calls = <<>>
  /\ lastReply = NoReply
  /\ failed = {}
  /\ resp = NoResponse
  /\ fn = NoCall
  /\ ret = NoCall
  /\ own = NoHistory
  /\ parked = NoContext
  /\ reviews = {}
  /\ sql = NoStatement
  /\ NoPage

NextConcurrent ==
  \/ \E r \in ConcurrentRequests :
       POSTMock(r) /\ UNCHANGED <<concurrencyVars, storageVars, pageVars>>
  \/ \E reply \in Replies(ConcurrentMockReplies) :
       MockSynthesisReturns(reply) /\ Hears("synthesis", reply)
  \/ \E r \in ConcurrentRequests :
       POSTTransparent(r) /\ UNCHANGED <<concurrencyVars, storageVars, pageVars>>
  \/ \E reply \in Replies(ConcurrentScoreReplies) :
       ITPEmployeeReturns(reply) /\ Hears("itpEmployee", reply)
  \/ \E reply \in Replies(ConcurrentScoreReplies) :
       ITPManagerReturns(reply) /\ Hears("itpManager", reply)
  \/ \E reply \in Replies(ConcurrentSelfReviewReplies) :
       SelfReviewReturns(reply) /\ Hears("selfReview", reply)
  \/ \E reply \in Replies(ConcurrentSynthesisReplies) :
       SynthesisReturns(reply) /\ Hears("synthesis", reply)
  \/ Switch

SpecConcurrent == InitConcurrent /\ [][NextConcurrent]_vars

(***************************************************************************)
(* The reviews table (src/unnamed/part_000 lines 42-84).  A row is         *)
(* modelled by its key columns and one score column; the table is the set  *)
(* of its rows, and a statement that violates a constraint is rolled back  *)
(* as a whole.                                                             *)
(***************************************************************************)
\* the values of reviews.id that statements name
ReviewIds == 1..MaxReviewIds

\* employees(id) and review_cycles(id): the rows the foreign keys can name
EmployeeIds == {Str("e1"), Str("e2")}

ReviewCycleIds == {Str("c1"), Str("c2")}

\* what a statement can give for a column: NULL, a key that exists, and
\* for the employee a key that does not
EmployeeValues == EmployeeIds \cup {Null, Str("e9")}

ReviewCycleValues == ReviewCycleIds \cup {Null}

ScoreValues == {Null, Num(0), Num(5)}

ReviewRows ==
  [id : ReviewIds, employee_id : EmployeeValues,
   review_cycle_id : ReviewCycleValues, itp_self_humble : ScoreValues]

\* the column constraints of one row: NOT NULL, REFERENCES, CHECK
rowViolations(row) ==
  {c \in {"employee_id NOT NULL", "review_cycle_id NOT NULL",
          "employee_id REFERENCES employees(id)",
          "CHECK (itp_self_humble BETWEEN 1 AND 10)"} :
     \/ c = "employee_id NOT NULL" /\ row.employee_id = Null
     \/ c = "review_cycle_id NOT NULL" /\ row.review_cycle_id = Null
     \/ /\ c = "employee_id REFERENCES employees(id)"
        /\ row.employee_id # Null
        /\ row.employee_id \notin EmployeeIds
     \/ /\ c = "CHECK (itp_self_humble BETWEEN 1 AND 10)"
        /\ row.itp_self_humble # Null
        /\ ~(row.itp_self_humble.n >= 1 /\ row.itp_self_humble.n <= 10)}

\* two rows collide on UNIQUE(employee_id, review_cycle_id): a NULL is
\* distinct from every value
samePair(a, b) ==
  /\ a.employee_id # Null
  /\ a.review_cycle_id # Null
  /\ a.employee_id = b.employee_id
  /\ a.review_cycle_id = b.review_cycle_id

\* the constraints INSERT of a row violates, without the UNIQUE of the pair
insertViolationsWithoutUnique(rows, row) ==
  rowViolations(row)
  \cup (IF \E old \in rows : old.id = row.id THEN {"PRIMARY KEY"} ELSE {})

\* the constraints INSERT of a row into the table violates
insertViolations(rows, row) ==
  rowViolations(row)
  \cup (IF \E old \in rows : old.id = row.id THEN {"PRIMARY KEY"} ELSE {})
  \cup (IF \E old \in rows : samePair(old, row)
        THEN {"UNIQUE(employee_id, review_cycle_id)"} ELSE {})

\* the constraints UPDATE violates, after[old] being the row as the
\* statement leaves it: the new value of a row that WHERE selects
updateViolations(rows, selected, after) ==
  UNION {rowViolations(after[old]) : old \in selected}
  \cup (IF \E a \in rows, b \in rows : a # b /\ samePair(after[a], after[b])
        THEN {"UNIQUE(employee_id, review_cycle_id)"} ELSE {})

\* the statement ends: it is committed, or rolled back when it violates a
\* constraint
Execute(op, violated, rows) ==
  /\ sql' = [op |-> op, violated |-> violated]
  /\ reviews' = IF violated = {} THEN rows ELSE reviews

\* INSERT INTO reviews (id, employee_id, review_cycle_id, itp_self_humble)
InsertReview(row) ==
  /\ Execute("insert", insertViolations(reviews, row), reviews \cup {row})
  /\ UNCHANGED <<handlerVars, pureVars, concurrencyVars, pageVars>>

\* UPDATE reviews SET employee_id = e, review_cycle_id = c WHERE id = i
UpdateReviewPair(i, e, c) ==
  LET selected == {old \in reviews : old.id = i}
      after == [old \in reviews |->
                  IF old \in selected
                  THEN [old EXCEPT !.employee_id = e, !.review_cycle_id = c]
                  ELSE old]
  IN /\ Execute("update", updateViolations(reviews, selected, after),
                {after[old] : old \in reviews})
     /\ UNCHANGED <<handlerVars, pureVars, concurrencyVars, pageVars>>

\* UPDATE reviews SET itp_self_humble = score WHERE id = i
UpdateReviewScore(i, score) ==
  LET selected == {old \in reviews : old.id = i}
      after == [old \in reviews |->
                  IF old \in selected
                  THEN [old EXCEPT !.itp_self_humble = score] ELSE old]
  IN /\ Execute("update", updateViolations(reviews, selected, after),
                {after[old] : old \in reviews})
     /\ UNCHANGED <<handlerVars, pureVars, concurrencyVars, pageVars>>

\* UPDATE reviews SET review_cycle_id = c WHERE employee_id = e
UpdateCycleOfEmployee(e, c) ==
  LET selected == {old \in reviews : old.employee_id = e}
      after == [old \in reviews |->
                  IF old \in selected
                  THEN [old EXCEPT !.review_cycle_id = c] ELSE old]
  IN /\ Execute("update many", updateViolations(reviews, selected, after),
                {after[old] : old \in reviews})
     /\ UNCHANGED <<handlerVars, pureVars, concurrencyVars, pageVars>>

\* DELETE FROM reviews WHERE id = i
DeleteReview(i) ==
  /\ Execute("delete", {}, {old \in reviews : old.id # i})
  /\ UNCHANGED <<handlerVars, pureVars, concurrencyVars, pageVars>>

InitReviews ==
  /\ apiKey = TRUE
  /\ handler = "transparent"
  /\ req = NoRequest
  /\ pc = "idle"
  /\ data = NoData
  /\ calls = <<>>
  /\ lastReply = NoReply
  /\ failed = {}
  /\ resp = NoResponse
  /\ fn = NoCall
  /\ ret = NoCall
  /\ own = NoHistory
  /\ parked = NoContext
  /\ reviews = {}
  /\ sql = NoStatement
  /\ NoPage

NextReviews ==
  \/ \E row \in ReviewRows : InsertReview(row)
  \/ \E i \in ReviewIds, e \in EmployeeValues, c \in ReviewCycleValues :
       UpdateReviewPair(i, e, c)
  \/ \E i \in ReviewIds, score \in ScoreValues : UpdateReviewScore(i, score)
  \/ \E e \in EmployeeIds, c \in ReviewCycleValues : UpdateCycleOfEmployee(e, c)
  \/ \E i \in ReviewIds : DeleteReview(i)

SpecReviews == InitReviews /\ [][NextReviews]_vars

(***************************************************************************)
(* The page's specification: one behaviour is the life of one mounted      *)
(* component, from its first render.                                       *)
(***************************************************************************)
serverVars == <<handlerVars, pureVars, concurrencyVars, storageVars>>

InitPage ==
  /\ apiKey = FALSE
  /\ handler = "mock"
  /\ req = NoRequest
  /\ pc = "idle"
  /\ data = NoData
  /\ calls = <<>>
  /\ lastReply = NoReply
  /\ failed = {}
  /\ resp = NoResponse
  /\ fn = NoCall
  /\ ret = NoCall
  /\ own = NoHistory
  /\ parked = NoContext
  /\ reviews = {}
  /\ sql = NoStatement
  /\ component \in Components
  /\ inputs = InitialInputs
  /\ extractedData = InitialExtractedData
  /\ output = Null
  /\ isGenerating = FALSE
  /\ error = Null
  /\ currentStep = 1
  /\ timers = <<>>
  /\ generating = {}
  /\ tests = 0
  /\ clicks = 0
  /\ events = 0

NextPage ==
  \/ \E type \in Categories : \E files \in FileListsOf(type) :
       handleFileUpload(files, type) /\ UNCHANGED serverVars
  \/ \E type \in Categories : \E index \in RemoveButtons(type) :
       removeFile(type, index) /\ UNCHANGED serverVars
  \/ \E value \in CommentTexts :
       changeManagerComments(value) /\ UNCHANGED serverVars
  \/ runUpdateCurrentStep /\ UNCHANGED serverVars
  \/ clickGenerate /\ UNCHANGED serverVars
  \/ \E g \in generating : extracted(g) /\ UNCHANGED serverVars
  \/ \E g \in generating, reply \in Outcomes :
       replied(g, reply) /\ UNCHANGED serverVars
  \/ clickTestAPI /\ UNCHANGED serverVars
  \/ testAPIReplied /\ UNCHANGED serverVars

SpecPage == InitPage /\ [][NextPage]_vars

\* the page under the condition that what an invocation waits for arrives:
\* the event loop runs the 2000 ms timer of extractDataFromUploads, and the
\* request returns or fails
SpecPageLive ==
  /\ InitPage
  /\ [][NextPage]_vars
  /\ WF_vars(\E g \in generating : extracted(g) /\ UNCHANGED serverVars)
  /\ WF_vars(\E g \in generating, reply \in Outcomes :
               replied(g, reply) /\ UNCHANGED serverVars)

(***************************************************************************)
(* What the results page does with a response (src/app/page.tsx).          *)
(***************************************************************************)
\* the "Data Sources Used" block: output.dataUsed.itpScores ? ... of a
\* response without dataUsed reads a property of undefined
renderDataSources(review) ==
  IF "dataUsed" \in DOMAIN review
  THEN JsonValue([k \in DOMAIN review.dataUsed |->
                    IF review.dataUsed[k] THEN "used" ELSE "unused"])
  ELSE JsonThrows

(***************************************************************************)
(* The properties of the handlers.                                         *)
(***************************************************************************)
TextKeys == {"strengths", "developmentFeedback", "goalsNextYear", "overallAssessment"}

FlagKeys == {"itpScores", "feedback360", "selfReview", "managerComments"}

IsNonEmptyString(v) == v.t = "string" /\ v.s # ""

IsSuccess(response) == response.status \in 200..299

HasTexts(response) == TextKeys \subseteq DOMAIN response.body

HasPresenceMap(response) ==
  /\ "dataUsed" \in DOMAIN response.body
  /\ DOMAIN response.body.dataUsed = FlagKeys

\* the synthesis call has thrown or come back with a non-success status
SynthesisFailed ==
  /\ lastReply.call = "synthesis"
  /\ \/ lastReply.reply.outcome = "rejected"
     \/ ~lastReply.reply.ok

\* C1: when the synthesis call throws or returns a non-success status, the
\* handler still answers with a success status and a body that has the four
\* text keys; it never answers with a server error.
C1_FailedSynthesisStillSucceeds ==
  (pc = "done" /\ SynthesisFailed) => (IsSuccess(resp) /\ HasTexts(resp))

\* C2: every response to a form submission holds the four text fields, each
\* of them a non-empty string, whatever the service replied.
C2_FourNonEmptyTexts ==
  (pc = "done" /\ req.formOk) =>
    \A k \in TextKeys : k \in DOMAIN resp.body /\ IsNonEmptyString(resp.body[k])

\* C3: when an extraction call (employee scores, manager scores, self-review
\* text) fails, its category is recorded as unavailable, the value null or
\* empty and the presence flag false, and the handler completes normally.
C3_FailedExtractionIsUnavailable ==
  (pc = "done" /\ handler = "transparent" /\ req.formOk) =>
    /\ "itpEmployee" \in failed => data.itpEmployeeScores = Null
    /\ "itpManager" \in failed => data.itpManagerScores = Null
    /\ "selfReview" \in failed => ~Truthy(data.selfReviewText)
    /\ IsSuccess(resp) /\ HasPresenceMap(resp)
    /\ "selfReview" \in failed => ~resp.body.dataUsed.selfReview
    /\ {"itpEmployee", "itpManager"} \cap failed
         = {"itpEmployee", "itpManager"} \cap {calls[i] : i \in DOMAIN calls}
       => ~resp.body.dataUsed.itpScores

\* what the request supplies of each category
Supplied(r) ==
  [itpScores |-> r.itpEmployeeScreenshots > 0 \/ r.itpManagerScreenshots > 0,
   feedback360 |-> r.feedback360,
   selfReview |-> r.selfReviewScreenshots > 0,
   managerComments |-> trim(managerCommentsOf(r)) # ""]

\* C4 as the specification words it: each presence flag is true exactly
\* when its category was supplied with the request.
C4_FlagsFollowSupply ==
  (pc = "done" /\ handler \in {"mock", "transparent"} /\ HasPresenceMap(resp)) =>
    resp.body.dataUsed = Supplied(req)

\* C4, amended: the flags of the document, of the self review and of the
\* comments are true exactly when the category was supplied; the flag of
\* the scores is true exactly when score images were supplied and, where
\* the scores are extracted by a call (part_002), one of the extractions
\* has produced scores.
C4_FlagsFollowSupplyAndExtraction ==
  (pc = "done" /\ handler \in {"mock", "transparent"} /\ HasPresenceMap(resp)) =>
    LET flags == resp.body.dataUsed IN
    /\ flags.feedback360 = Supplied(req).feedback360
    /\ flags.selfReview = Supplied(req).selfReview
    /\ flags.managerComments = Supplied(req).managerComments
    /\ flags.itpScores =
         (/\ Supplied(req).itpScores
          /\ \/ handler = "mock"
             \/ data.itpEmployeeScores # Null
             \/ data.itpManagerScores # Null)

\* score images supplied, no scores extracted: the flag is false, beside a
\* comment that is present
C4_Witness ==
  /\ pc = "done"
  /\ handler = "transparent"
  /\ HasPresenceMap(resp)
  /\ req.itpEmployeeScreenshots > 0
  /\ data.itpEmployeeScores = Null
  /\ ~resp.body.dataUsed.itpScores
  /\ resp.body.dataUsed.managerComments

\* C5: every success response to a form submission carries dataUsed with
\* its four flags, so that the page's read of output.dataUsed.* never reads
\* a property of a missing object.
C5_SuccessCarriesPresenceMap ==
  (pc = "done" /\ req.formOk /\ IsSuccess(resp)) =>
    (HasPresenceMap(resp) /\ ~renderDataSources(resp.body).throws)

\* a form submission without any file and with empty comments
NoDataRequest(r) ==
  /\ r.formOk
  /\ r.itpEmployeeScreenshots = 0
  /\ r.itpManagerScreenshots = 0
  /\ ~r.feedback360
  /\ r.selfReviewScreenshots = 0
  /\ r.managerComments \in {Null, Str("")}

AllFlagsFalse(dataUsed) == \A k \in FlagKeys : ~dataUsed[k]

textsOf(response) == [k \in TextKeys |-> response.body[k]]

\* the four texts each handler falls back to when it has no data at all
NoDataFallbackMock ==
  [strengths |-> Str("Based on 0 data source(s): No specific data provided."),
   developmentFeedback |->
     Str("Development areas will be identified with more comprehensive data input."),
   goalsNextYear |->
     Str("1. Continue professional development\n2. Strengthen collaboration skills\n3. Expand technical expertise"),
   overallAssessment |->
     Str("Assessment based on 0 of 4 possible data sources. Provide additional inputs for a more comprehensive review.")]

NoDataFallbackTransparent ==
  LET review == generateTransparentFallbackReview(
                  NoData, "No ITP assessment data available.",
                  [k \in FlagKeys |-> FALSE])
  IN [k \in TextKeys |-> review[k]]

NoDataFallback(h) ==
  IF h = "mock" THEN NoDataFallbackMock ELSE NoDataFallbackTransparent

\* C6 as the specification words it: a submission without files and with
\* empty comments is answered with an all-false presence map and the four
\* no-data fallback texts, the same on every repetition.
C6_NoDataGivesFallback ==
  (pc = "done" /\ handler \in {"mock", "transparent"} /\ NoDataRequest(req)) =>
    /\ HasPresenceMap(resp) /\ HasTexts(resp)
    /\ AllFlagsFalse(resp.body.dataUsed)
    /\ textsOf(resp) = NoDataFallback(handler)

\* the synthesis call was not made, or has given no review
NoSynthesizedReview ==
  \/ lastReply = NoReply
  \/ /\ lastReply.call = "synthesis"
     /\ lastReply.reply.outcome = "response"
     /\ ~lastReply.reply.ok
  \/ handler = "transparent" /\ "synthesis" \in failed

\* C6, amended: a submission without files and with empty comments gets an
\* all-false presence map in every response that carries one; its four
\* texts are the no-data fallback texts whenever the synthesis call was not
\* made, came back with a non-success status or (part_002) failed in any
\* way.  A rejected fetch of part_004 is answered with status 500, and a
\* service reply that is accepted supplies the texts itself.
C6_NoDataFallbackWithoutReview ==
  (pc = "done" /\ handler \in {"mock", "transparent"} /\ NoDataRequest(req)) =>
    /\ HasPresenceMap(resp) => AllFlagsFalse(resp.body.dataUsed)
    /\ NoSynthesizedReview =>
         /\ IsSuccess(resp) /\ HasPresenceMap(resp) /\ HasTexts(resp)
         /\ textsOf(resp) = NoDataFallback(handler)
    /\ (handler = "mock" /\ lastReply.call = "synthesis"
        /\ lastReply.reply.outcome = "rejected") => resp.status = 500

\* no data, and the service answers the synthesis call with status 500
C6_Witness ==
  /\ pc = "done"
  /\ handler = "mock"
  /\ NoDataRequest(req)
  /\ lastReply = Received("synthesis", HttpError(500))
  /\ textsOf(resp) = NoDataFallbackMock
  /\ AllFlagsFalse(resp.body.dataUsed)

(***************************************************************************)
(* The properties of the helpers.                                          *)
(***************************************************************************)
FallbackGenerators ==
  {"generateTransparentFallbackReview", "generateFallback", "generateFallbackReview"}

FourNonEmptyTexts(review) ==
  /\ TextKeys \subseteq DOMAIN review
  /\ \A k \in TextKeys : IsNonEmptyString(review[k])

MentionsScore(s) ==
  \/ includes(s, "/10")
  \/ includes(s, "points higher")
  \/ includes(s, "point difference")

\* C8: called with a presence map whose four flags are false, as the
\* handlers derive it from the data they pass along, a fallback generator
\* returns four non-empty strings, and none of them renders a score.
C8_NoFlagsNoScores ==
  (/\ fn.name \in {"generateTransparentFallbackReview", "generateFallback"}
   /\ AllFlagsFalse(fn.dataUsed)) =>
    /\ FourNonEmptyTexts(ret)
    /\ \A k \in TextKeys : ~MentionsScore(ret[k].s)

\* the generator of part_002 is called with a blank comment and nothing else
C8_Witness ==
  /\ fn.name = "generateTransparentFallbackReview"
  /\ AllFlagsFalse(fn.dataUsed)
  /\ fn.data.managerComments = Str("  ")
  /\ fn.data.itpEmployeeScores = Null
  /\ FourNonEmptyTexts(ret)

Traits == {"humble", "hungry", "smart"}

GapClasses == {"Manager rates", "Self-assessment", "Good alignment"}

\* the class of one trait, from the manager's score m and the employee's s
gapClass(m, s) ==
  IF m - s >= 2 THEN "Manager rates"
  ELSE IF s - m >= 2 THEN "Self-assessment"
  ELSE "Good alignment"

\* the start of the line of a trait in the analysis of either source
traitLine(source, trait) ==
  IF source = "part_002" THEN "\n* " \o capitalize(trait) \o ": "
  ELSE "\n- " \o trait \o ": "

\* C9: the gap analysis classifies each trait on its own: aligned when the
\* two scores differ by less than 2, manager-higher when the manager's score
\* exceeds the employee's by 2 or more, self-higher when the employee's
\* exceeds the manager's by 2 or more, and it names the size of the gap.
C9_GapPerTrait ==
  (/\ fn.name = "analyzeITPScores"
   /\ fn.employeeScores # Null
   /\ fn.managerScores # Null) =>
    \A trait \in Traits :
      LET m == Get(fn.managerScores, trait).n
          s == Get(fn.employeeScores, trait).n
          line == traitLine(fn.source, trait)
      IN /\ \A c \in GapClasses :
              includes(ret.s, line \o c) <=> c = gapClass(m, s)
         /\ m - s >= 2 =>
              includes(ret.s, line \o "Manager rates " \o ToString(m - s) \o " points higher")
         /\ s - m >= 2 =>
              includes(ret.s, line \o "Self-assessment " \o ToString(s - m) \o " points higher")

\* the documented example: self {5,5,5} against manager {8,5,3}
C9_Witness ==
  /\ fn.name = "analyzeITPScores"
  /\ fn.source = "part_002"
  /\ fn.employeeScores = ITPScores(Num(5), Num(5), Num(5))
  /\ fn.managerScores = ITPScores(Num(8), Num(5), Num(3))
  /\ includes(ret.s, "\n* Humble: Manager rates 3 points higher")
  /\ includes(ret.s, "\n* Hungry: Good alignment")
  /\ includes(ret.s, "\n* Smart: Self-assessment 2 points higher")

Placeholders == {UnableStrengths, UnableDevelopment, UnableGoals, UnableOverall}

\* the offsets at which p occurs in s
occurrences(s, p) == {i \in 0..(Len(s) - Len(p)) : startsWithAt(s, p, i)}

\* four strings lie in the text side by side, no two of them sharing a character
NonOverlapping(text, parts) ==
  \E a \in occurrences(text, parts[1]), b \in occurrences(text, parts[2]),
     c \in occurrences(text, parts[3]), d \in occurrences(text, parts[4]) :
    LET at == <<a, b, c, d>> IN
    \A j \in 1..4, k \in 1..4 :
      j # k => (at[j] + Len(parts[j]) <= at[k] \/ at[k] + Len(parts[k]) <= at[j])

\* C10: of a text of four sections, each under a line with its keyword, the
\* splitter returns four non-empty substrings that do not overlap and that
\* cover the content of the sections, none of them a placeholder.
C10_SplitsLabelledText ==
  (/\ fn.name = "parseSynthesizedReview"
   /\ fn.source = "part_002"
   /\ fn.style # "none") =>
    LET parts == <<ret.strengths.s, ret.developmentFeedback.s,
                   ret.goalsNextYear.s, ret.overallAssessment.s>>
    IN /\ \A k \in 1..4 : parts[k] # "" /\ parts[k] \notin Placeholders
       /\ \A k \in 1..4 : includes(parts[k], fn.bodies[k])
       /\ NonOverlapping(fn.text, parts)

\* the splitter of part_002 is applied to a text without any section keyword
SplitsUnlabelled ==
  /\ fn.name = "parseSynthesizedReview"
  /\ fn.source = "part_002"
  /\ fn.style = "none"

\* C11 as the specification words it: of a text without any recognizable
\* section keyword the splitter returns four sections that all equal the
\* same fixed placeholder string.
C11_OnePlaceholderForAll ==
  SplitsUnlabelled =>
    \E p \in Placeholders : \A k \in TextKeys : ret[k] = Str(p)

\* C11, amended: of a text without any recognizable section keyword the
\* splitter returns four fixed placeholder strings, one for each section,
\* each naming its section: "Unable to extract <section> section from
\* generated review."
C11_OnePlaceholderEach ==
  SplitsUnlabelled =>
    /\ ret.strengths =
         Str("Unable to extract strengths section from generated review.")
    /\ ret.developmentFeedback =
         Str("Unable to extract development feedback section from generated review.")
    /\ ret.goalsNextYear =
         Str("Unable to extract goals section from generated review.")
    /\ ret.overallAssessment =
         Str("Unable to extract overall assessment section from generated review.")

\* a text with numbering and markdown marks, and no section keyword
C11_Witness ==
  /\ SplitsUnlabelled
  /\ fn.text = "1. kind\n## slow\n**grow**"
  /\ ret.goalsNextYear = Str(UnableGoals)

\* the calls the handler has issued so far
Issued == {calls[i] : i \in DOMAIN calls}

timesIssued(c) == Cardinality({i \in DOMAIN calls : calls[i] = c})

\* C12: within one request the handler never retries: it issues at most one
\* call for each of the employee scores, the manager scores and the self
\* review, and at most one synthesis call; it issues an extraction call only
\* for a category with at least one uploaded file; and once a call has
\* failed, no further call of that category is issued or in flight.
C12_NoRetry ==
  /\ \A c \in {"itpEmployee", "itpManager", "selfReview", "synthesis"} :
       timesIssued(c) <= 1
  /\ "itpEmployee" \in Issued => req.itpEmployeeScreenshots > 0
  /\ "itpManager" \in Issued => req.itpManagerScreenshots > 0
  /\ "selfReview" \in Issued => req.selfReviewScreenshots > 0
  /\ \A c \in failed : timesIssued(c) = 1 /\ pc # c

\* the employee's score extraction has failed, and the request has gone on
\* through every other call to its response
C12_Witness ==
  /\ pc = "done"
  /\ handler = "transparent"
  /\ calls = <<"itpEmployee", "itpManager", "selfReview", "synthesis">>
  /\ "itpEmployee" \in failed
  /\ resp.status = 200

CallNames == {"itpEmployee", "itpManager", "selfReview", "synthesis"}

\* the place of a call in the order of one request
callRank(c) ==
  IF c = "itpEmployee" THEN 1
  ELSE IF c = "itpManager" THEN 2
  ELSE IF c = "selfReview" THEN 3
  ELSE 4

\* the extraction calls a request asks for
Wanted(r) ==
  {c \in {"itpEmployee"} : r.itpEmployeeScreenshots > 0}
  \cup {c \in {"itpManager"} : r.itpManagerScreenshots > 0}
  \cup {c \in {"selfReview"} : r.selfReviewScreenshots > 0}

\* C13: the calls of one request are strictly sequential: they are issued in
\* the order employee scores, manager scores, self review, synthesis; the
\* only call in flight is the one issued last, every earlier one having
\* returned or failed; and the synthesis call is issued only after every
\* extraction call of the request has returned or failed.
C13_CallsAreSequential ==
  /\ \A i \in DOMAIN calls, j \in DOMAIN calls :
       i < j => callRank(calls[i]) < callRank(calls[j])
  /\ pc \in CallNames =>
       /\ calls # <<>> /\ calls[Len(calls)] = pc
       /\ Len(calls) > 1 => lastReply.call = calls[Len(calls) - 1]
       /\ Len(calls) = 1 => lastReply = NoReply
  /\ (pc = "done" /\ calls # <<>>) => lastReply.call = calls[Len(calls)]
  /\ ("synthesis" \in Issued /\ handler # "mock") =>
       /\ Wanted(req) \subseteq Issued
       /\ \A c \in Wanted(req) : pc # c

\* the synthesis call is in flight after the three extraction calls, the
\* last of which has just returned
C13_Witness ==
  /\ pc = "synthesis"
  /\ calls = <<"itpEmployee", "itpManager", "selfReview", "synthesis">>
  /\ lastReply.call = "selfReview"
  /\ resp = NoResponse

FormHandlers == {"route", "transparent", "mock"}

\* a form handler has answered a request that is no form submission
AnsweredMalformed == pc = "done" /\ handler \in FormHandlers /\ ~req.formOk

\* a JSON error body with a message a person can read
IsErrorBody(body) ==
  /\ "error" \in DOMAIN body
  /\ IsNonEmptyString(body.error)

\* the request says that its body is JSON
SaysJson(r) ==
  ~Nullish(r.contentType) /\ includes(r.contentType.s, "application/json")

\* C15 as the specification words it: a request without content type, or
\* with a body that cannot be read as a form submission, is answered with a
\* 4xx or 5xx status and a JSON error body with a readable message; no
\* request that is not a form submission is answered with a success status.
C15_MalformedIsRefused ==
  AnsweredMalformed =>
    (resp.status \in 400..599 /\ IsErrorBody(resp.body) /\ ~IsSuccess(resp))

\* C15, amended: a request that is no form submission is answered with
\* status 500 and the JSON body {error, details}, both readable messages,
\* except by the handler of part_003 and part_004 when the content type
\* names application/json: that request is a test request, answered with a
\* success status and the API status {status, timestamp, apiKey} and
\* without any review.
C15_MalformedIsRefusedOrTest ==
  AnsweredMalformed =>
    IF handler = "mock" /\ SaysJson(req)
    THEN /\ IsSuccess(resp)
         /\ DOMAIN resp.body = {"status", "timestamp", "apiKey"}
         /\ resp.body.status = Str("API is working")
    ELSE /\ resp.status = 500
         /\ DOMAIN resp.body = {"error", "details"}
         /\ resp.body.error = Str("Failed to synthesize review")
         /\ IsNonEmptyString(resp.body.details)

\* a request without content type has been refused
C15_Witness ==
  /\ AnsweredMalformed
  /\ handler = "mock"
  /\ req.contentType = Null
  /\ resp.status = 500
  /\ IsErrorBody(resp.body)

\* a score triple whose three scores are integers from 1 to 10
InRange(scores) ==
  \A trait \in Traits :
    LET score == Get(scores, trait) IN
    score.t = "number" /\ score.n \in 1..10

\* C17: every score triple that is not null and that the handler has
\* extracted, feeds into the gap analysis or echoes in extractedData has
\* three scores that are integers from 1 to 10, whatever the service
\* replied.
C17_ScoresInRange ==
  /\ data.itpEmployeeScores # Null => InRange(data.itpEmployeeScores)
  /\ data.itpManagerScores # Null => InRange(data.itpManagerScores)
  /\ (pc = "done" /\ "extractedData" \in DOMAIN resp.body) =>
       /\ resp.body.extractedData.itpEmployeeScores # Null =>
            InRange(resp.body.extractedData.itpEmployeeScores)
       /\ resp.body.extractedData.itpManagerScores # Null =>
            InRange(resp.body.extractedData.itpManagerScores)

SectionKeys ==
  <<"strengths", "developmentFeedback", "goalsNextYear", "overallAssessment">>

\* the splitter has been applied to a text of four sections under their names
SplitsSections == fn.name = "parseSynthesizedReview" /\ fn.style # "none"

\* C19: the text between two boundary lines ends up in the section that the
\* nearest boundary line before it opens, in whatever order the sections
\* come and even when the text names another section: no such text is
\* dropped, none is given to another section.
C19_TextStaysInItsSection ==
  (SplitsSections /\ fn.source = "part_002") =>
    \A k \in 1..4 :
      /\ includes(ret[SectionKeys[k]].s, fn.bodies[k])
      /\ \A j \in 1..4 : j # k => ~includes(ret[SectionKeys[k]].s, fn.bodies[j])

\* C20: stripping the numbering and the emphasis marks of a section removes
\* text of its header line only: every line of the body is kept in the
\* section, with or without a colon in the section.
C20_StripKeepsBody ==
  (SplitsSections /\ fn.style \in {"numbered", "ordered"}) =>
    \A k \in 1..4 : includes(ret[SectionKeys[k]].s, fn.bodies[k])

\* the request can be read by its handler: a form submission, or for the
\* JSON handler a body that is a JSON object
Readable(r) ==
  \/ r.formOk
  \/ "json" \in DOMAIN r /\ r.json.t = "object"

\* C16: no input field is required: whatever subset of the score triples,
\* the feedback text, the self-review and the manager comments is absent
\* (both score triples null included), the handler answers with the four
\* texts and never with an error response.
C16_NoFieldRequired ==
  (pc = "done" /\ handler \in {"json", "transparent"} /\ Readable(req))
    => /\ IsSuccess(resp)
       /\ HasTexts(resp)
       /\ \A k \in TextKeys : resp.body[k].t = "string"

\* the reply the invocation received to a call, if it made the call
heard(replies, call) == \E i \in DOMAIN replies : replies[i].call = call

replyTo(replies, call) ==
  replies[CHOOSE i \in DOMAIN replies : replies[i].call = call].reply

\* what part_002 has extracted at the end, from the request's own form
\* fields and the replies to its own calls
ownData(r, replies) ==
  [itpEmployeeScores |->
     IF heard(replies, "itpEmployee")
     THEN extractITPScores(replyTo(replies, "itpEmployee"))
     ELSE NoData.itpEmployeeScores,
   itpManagerScores |->
     IF heard(replies, "itpManager")
     THEN extractITPScores(replyTo(replies, "itpManager"))
     ELSE NoData.itpManagerScores,
   feedback360Text |->
     IF r.feedback360 THEN Str(extractPDFText(FeedbackFileName))
     ELSE NoData.feedback360Text,
   selfReviewText |->
     IF heard(replies, "selfReview")
     THEN extractSelfReviewText(replyTo(replies, "selfReview"))
     ELSE NoData.selfReviewText,
   managerComments |-> Str(managerCommentsOf(r))]

\* the response to a form submission as a function of the form fields and
\* of the replies to the request's own calls
ownResponse(r, replies) ==
  IF handler = "transparent"
  THEN synthesizeReview(ownData(r, replies), replyTo(replies, "synthesis"))
  ELSE IF ~heard(replies, "synthesis")
  THEN mockFallbackResponse(r, "API key not configured")
  ELSE mockAfterFetch(r, replyTo(replies, "synthesis"))

\* C14: requests share no mutable state: however two requests that are
\* handled at the same time interleave, the response of each one is a
\* function of its own form fields and of the replies to its own calls.
C14_ResponseIsOwn ==
  /\ (pc = "done" /\ req.formOk) => resp = ownResponse(req, own.replies)
  /\ (parked.pc = "done" /\ parked.req.formOk)
       => parked.resp = ownResponse(parked.req, parked.own.replies)

\* two different form submissions have both been answered, each one having
\* been set aside while one of its calls was in flight
C14_Witness ==
  /\ pc = "done"
  /\ parked.pc = "done"
  /\ req.formOk
  /\ parked.req.formOk
  /\ req # parked.req
  /\ own.preempted
  /\ parked.own.preempted
  /\ Len(own.replies) >= 2
  /\ Len(parked.own.replies) >= 2
  /\ own.replies # parked.own.replies
  /\ IsSuccess(resp)
  /\ IsSuccess(parked.resp)

\* the table has at most one row for an (employee, review cycle) pair
OneRowPerPair(rows) ==
  \A a \in rows, b \in rows :
    (a.employee_id = b.employee_id /\ a.review_cycle_id = b.review_cycle_id)
      => a = b

\* C18: after any sequence of inserts and updates the reviews table has at
\* most one row for each (employee, review cycle) pair, and a statement
\* that would create a second row for a pair is rejected and leaves the
\* table as it was.
C18_OneReviewPerPair ==
  [][/\ OneRowPerPair(reviews')
     /\ sql'.violated # {} => reviews' = reviews]_vars

\* a row is in the table, and an insert of a second row for its pair has
\* just been rejected for the UNIQUE constraint alone
C18_Witness ==
  /\ reviews # {}
  /\ sql.op = "insert"
  /\ sql.violated = {"UNIQUE(employee_id, review_cycle_id)"}

\* the piece of a text from offset a up to offset b
piece(text, a, b) == SubSeq(text, a + 1, b)

\* the four pieces of a text of length n cut at floor(n/4), floor(n/2) and
\* floor(3n/4)
fourPieces(text) ==
  LET n == Len(text) IN
  [strengths |-> piece(text, 0, n \div 4),
   developmentFeedback |-> piece(text, n \div 4, n \div 2),
   goalsNextYear |-> piece(text, n \div 2, (3 * n) \div 4),
   overallAssessment |-> piece(text, (3 * n) \div 4, n)]

NoneGenerated ==
  [strengths |-> "No strengths data generated.",
   developmentFeedback |-> "No development feedback generated.",
   goalsNextYear |-> "No goals generated.",
   overallAssessment |-> "No overall assessment generated."]

\* the response carries the four pieces of the text, a placeholder for
\* every empty one
IsQuartered(text, body) ==
  LET p == fourPieces(text) IN
  /\ p.strengths \o p.developmentFeedback \o p.goalsNextYear
       \o p.overallAssessment = text
  /\ Len(text) >= 4 => \A k \in TextKeys : p[k] # ""
  /\ \A k \in TextKeys :
       body[k] = Str(IF p[k] = "" THEN NoneGenerated[k] ELSE p[k])

IsFormSubmission(r) ==
  /\ r.formOk
  /\ ~(~Nullish(r.contentType) /\ includes(r.contentType.s, "application/json"))

\* C22: when no API key is configured, part_004 issues no external call at
\* all during the request, and answers a form submission with a success
\* status, the four fallback texts, the presence map, the echo of the
\* extracted data and an error field saying the API key is not configured.
C22_NoKeyNoCall ==
  (handler = "mock" /\ ~apiKey)
    => /\ calls = <<>>
       /\ lastReply = NoReply
       /\ (pc # "idle" /\ IsFormSubmission(req))
            => /\ pc = "done"
               /\ IsSuccess(resp)
               /\ HasPresenceMap(resp)
               /\ "extractedData" \in DOMAIN resp.body
               /\ resp.body.extractedData = mockExtractedData(req)
               /\ "error" \in DOMAIN resp.body
               /\ resp.body.error = Str("API key not configured")
               /\ \A k \in TextKeys :
                    /\ IsNonEmptyString(resp.body[k])
                    /\ resp.body[k] =
                         generateFallback(dataUsedMock(req), mockExtractedData(req),
                                          managerCommentsOf(req))[k]

\* a form submission with files and comments has been answered without a
\* key
C22_Witness ==
  /\ handler = "mock"
  /\ ~apiKey
  /\ pc = "done"
  /\ IsFormSubmission(req)
  /\ req.itpEmployeeScreenshots > 0
  /\ req.managerComments = Str("Reliable and kind.")
  /\ resp.body.dataUsed.itpScores

\* the fallback text quotes the comment, or uses its no-comments wording
QuotesComments(strengths, quoted, noComments, comments) ==
  /\ includes(strengths, quoted \o comments)
  /\ ~includes(strengths, noComments)

SaysNoComments(strengths, noComments) == includes(strengths, noComments)

\* C23: the fallback text agrees with the presence map about the manager
\* comments: it quotes the comment text exactly when the managerComments
\* flag is true and uses its no-comments wording exactly when the flag is
\* false, for a comment of blanks too.
C23_FallbackAgreesWithFlag ==
  /\ fn.name = "generateFallback"
       => IF fn.dataUsed.managerComments
          THEN QuotesComments(ret.strengths.s, "data source(s): ",
                              "No specific data provided.", fn.managerComments)
          ELSE SaysNoComments(ret.strengths.s, "No specific data provided.")
  /\ (fn.name = "generateTransparentFallbackReview" /\ ret # JsonThrows)
       => IF fn.dataUsed.managerComments
          THEN QuotesComments(ret.strengths.s, "Manager Observations:\n",
                              "No additional manager comments were provided.",
                              fn.data.managerComments.s)
          ELSE SaysNoComments(ret.strengths.s,
                              "No additional manager comments were provided.")

(***************************************************************************)
(* The properties of the page.                                             *)
(***************************************************************************)
\* the lowest-numbered step that is 'incomplete' for the inputs and the
\* output of a state, 5 when there is none
lowestIncomplete(in, out) ==
  IF \E i \in 1..5 : getStepStatus([inputs |-> in, output |-> out], i) = "incomplete"
  THEN CHOOSE i \in 1..5 :
         /\ getStepStatus([inputs |-> in, output |-> out], i) = "incomplete"
         /\ \A j \in 1..(i - 1) :
              getStepStatus([inputs |-> in, output |-> out], j) # "incomplete"
  ELSE 5

\* C24: when the delayed step update that the last change has scheduled has
\* run (no update waits any more), currentStep is the lowest-numbered step
\* that is 'incomplete' for the inputs and the output the page has then.
C24_StepFromCurrentInputs ==
  [][(runUpdateCurrentStep /\ timers' = <<>>)
       => currentStep' = lowestIncomplete(inputs', output')]_vars

\* the components whose Generate button C25 is about
GuardedComponents == {"page.tsx", "part_007"}

\* the requests to /api/synthesize that wait for their reply
requestsInFlight ==
  Cardinality({g \in generating : g.pc = "fetching"}) + tests

\* the Generate request that was posted last: an invocation that still
\* extracts has not posted its request
lastStarted ==
  IF \E g \in generating : g.pc = "extracting" THEN clicks - 1 ELSE clicks

\* C25 as stated: at most one request to /api/synthesize is in flight, and a
\* displayed review is the result of the request that was started last.
C25_OneRequestInFlight ==
  component \in GuardedComponents =>
    /\ requestsInFlight <= 1
    /\ Truthy(output) => output = result(lastStarted)

\* C25, amended: at most one invocation of handleGenerateReview is under way;
\* while it is, isGenerating is true and the Generate button is disabled; and
\* whenever the displayed review changes, it becomes the result of the
\* Generate request of the last click (no reply of an earlier click can
\* follow it).  Test requests of part_007 are not counted.
C25_OneGenerateAtATime ==
  [][(component \in GuardedComponents) =>
       (/\ Cardinality(generating') <= 1
        /\ generating' # {} => isGenerating' /\ ~GenerateEnabled'
        /\ output' # output => output' = result(clicks))]_vars

\* the review of the first click is on the page while the request of the
\* second click is in flight
C25_Witness ==
  /\ component \in GuardedComponents
  /\ output = result(1)
  /\ \E g \in generating : g.pc = "fetching" /\ g.request = 2

\* C26: isGenerating is true exactly while an invocation of
\* handleGenerateReview is under way, from the click to its end, and once
\* true it becomes false again, whichever way the request ends.
C26_GeneratingEnds ==
  /\ [](isGenerating <=> generating # {})
  /\ isGenerating ~> ~isGenerating

\* an invocation has ended without a result (its request failed), and the
\* page is idle again
C26_Witness ==
  /\ clicks > 0
  /\ ~isGenerating
  /\ generating = {}
  /\ ~Truthy(output) \/ output = mockOutput

\* the request of an invocation fails: a reply that is not ok, or an error
failedRequest ==
  \E g \in generating, reply \in Outcomes \ {"ok"} : replied(g, reply)

\* C27: a failed request leaves the displayed review as it was before the
\* click (no invocation changes it before its request ends), and a displayed
\* review is one that the server has returned.
C27_FailureKeepsOutput ==
  [][failedRequest =>
       (output' = output /\ (Truthy(output') => output'.from = "server"))]_vars

\* C28: whenever no generation is running, the Generate button is enabled,
\* whatever the inputs are.
C28_GenerateWithAnyInputs ==
  (component \in GuardedComponents /\ ~isGenerating) => GenerateEnabled

\* every field of the inputs but one is as it was
OthersUnchanged(type) ==
  \A other \in DOMAIN inputs \ {type} : inputs'[other] = inputs[other]

\* list is old followed by added, file by file
IsAppended(list, old, added) ==
  /\ Len(list) = Len(old) + Len(added)
  /\ \A i \in 1..Len(old) : list[i] = old[i]
  /\ \A i \in 1..Len(added) : list[Len(old) + i] = added[i]

\* list is old without its file at index (from 0), the others in their order
IsWithout(list, old, index) ==
  /\ Len(list) = Len(old) - 1
  /\ \A i \in 1..index : list[i] = old[i]
  /\ \A i \in (index + 1)..Len(list) : list[i] = old[i + 1]

\* one file, or none
AtMostOneFile(slot) == Truthy(slot) => slot \in {File(name) : name \in FileNames}

UploadAppends ==
  \A type \in ImageCategories : \A files \in FileLists \ {Null} :
    handleFileUpload(files, type) =>
      IsAppended(inputs'[type], inputs[type], files.a) /\ OthersUnchanged(type)

UploadReplacesFeedback ==
  \A files \in FileListsOf("feedback360") \ {Null} :
    handleFileUpload(files, "feedback360") =>
      /\ inputs'.feedback360 = IF files.a = <<>> THEN Undefined ELSE files.a[1]
      /\ AtMostOneFile(inputs'.feedback360)
      /\ OthersUnchanged("feedback360")

RemovalRemovesOne ==
  \A type \in ImageCategories : \A index \in RemoveButtons(type) :
    removeFile(type, index) =>
      IsWithout(inputs'[type], inputs[type], index) /\ OthersUnchanged(type)

RemovalClearsFeedback ==
  \A index \in RemoveButtons("feedback360") :
    removeFile("feedback360", index) =>
      ~Truthy(inputs'.feedback360) /\ OthersUnchanged("feedback360")

\* C29: an upload to an image category appends the new files after the
\* existing ones in their order; the removal of index i removes that file and
\* keeps the others in their order; an upload to the feedback slot replaces
\* its file by the first file of the upload, a removal clears it; and each of
\* them leaves the other categories and the manager comments as they were.
C29_UploadsAndRemovals ==
  [][/\ UploadAppends
     /\ UploadReplacesFeedback
     /\ RemovalRemovesOne
     /\ RemovalClearsFeedback]_vars

\* after an upload of two files and the removal of the first of them the
\* second is left, beside a feedback document
C29_Witness ==
  /\ \E type \in ImageCategories : inputs[type] = <<File("b")>>
  /\ inputs.feedback360 = File("a")

(***************************************************************************)
(* The properties of validatePDFFile.                                      *)
(***************************************************************************)
\* C30: validatePDFFile accepts a file exactly when its type is
\* application/pdf and its size is less than 10MB; a rejection carries one
\* message, that of the type first; a file of exactly 10MB is rejected.
C30_AcceptsBelowTenMB ==
  fn.name = "validatePDFFile" =>
    /\ ret.valid <=>
         (fn.file.type = "application/pdf" /\ fn.file.size < 10 * 1024 * 1024)
    /\ ~ret.valid =>
         ret.error =
           IF fn.file.type # "application/pdf"
           THEN Str("File must be a PDF")
           ELSE Str("File size must be less than 10MB")

====
